---- MODULE Spec2Model ----
(***************************************************************************)
(* The SSE decoder of the Ash Python SDK (ash_sdk/streaming.py): the two   *)
(* generators parse_sse_stream and parse_sse_stream_async, the mapping     *)
(* _parse_event, and the library calls they rest on (str.startswith,       *)
(* str.strip, json.loads, dict.get), computed character by character on    *)
(* the text of each line.                                                  *)
(*                                                                         *)
(* Python values are tagged records: str [t |-> "str", s], int             *)
(* [t |-> "num", n], bool [t |-> "bool", b], None [t |-> "null"], dict     *)
(* [t |-> "obj", o] (o a function from keys to values) and list            *)
(* [t |-> "arr", a].  The modelled JSON text has no backslash escapes, no  *)
(* fractions and no exponents.                                             *)
(***************************************************************************)
EXTENDS Integers, Sequences, FiniteSets, TLC

\* ------------------------------------------------------------ Python values

JStr(s) == [t |-> "str", s |-> s]
JNum(n) == [t |-> "num", n |-> n]
JBool(b) == [t |-> "bool", b |-> b]
None == [t |-> "null"]
JObj(o) == [t |-> "obj", o |-> o]
JArr(a) == [t |-> "arr", a |-> a]

EmptyDict == [k \in {} |-> None]

\* d[key] = value on a dict under construction (a repeated key: the last wins)
dict_set(o, key, value) ==
    [k \in (DOMAIN o) \cup {key} |-> IF k = key THEN value ELSE o[k]]

\* ------------------------------------------------------------ str methods

\* s[i], 1-based; "" outside the string
Ch(s, i) == IF i >= 1 /\ i <= Len(s) THEN SubSeq(s, i, i) ELSE ""

\* s[i-1 : j], cut at the end of the string
Sub(s, i, j) ==
    IF i > Len(s) THEN ""
    ELSE SubSeq(s, i, IF j > Len(s) THEN Len(s) ELSE j)

\* characters str.strip() removes: the space, the tab, the form feed (a line
\* holds no line break)
Whitespace == {" ", "\t", "\f"}

\* the characters json.loads skips around a value: the space, the tab and
\* the line breaks (a form feed is no JSON whitespace)
JsonWhitespace == {" ", "\t", "\n", "\r"}

\* startswith matching the field name and colon only: the space after the
\* colon is optional
startswith_no_space(line, prefix) ==
    Len(line) >= Len(prefix) - 1
    /\ SubSeq(line, 1, Len(prefix) - 1) = SubSeq(prefix, 1, Len(prefix) - 1)

startswith(line, prefix) ==
    Len(line) >= Len(prefix) /\ SubSeq(line, 1, Len(prefix)) = prefix

\* line[n:]
slice_from(line, n) == Sub(line, n + 1, Len(line))

RECURSIVE lstrip(_)
lstrip(s) ==
    IF Len(s) > 0 /\ Ch(s, 1) \in Whitespace THEN lstrip(Tail(s)) ELSE s

RECURSIVE rstrip(_)
rstrip(s) ==
    IF Len(s) > 0 /\ Ch(s, Len(s)) \in Whitespace
    THEN rstrip(Sub(s, 1, Len(s) - 1))
    ELSE s

strip(s) == rstrip(lstrip(s))

\* ------------------------------------------------------------ json.loads

Digits == {"0", "1", "2", "3", "4", "5", "6", "7", "8", "9"}

DigitVal(c) ==
    CASE c = "0" -> 0 [] c = "1" -> 1 [] c = "2" -> 2 [] c = "3" -> 3
      [] c = "4" -> 4 [] c = "5" -> 5 [] c = "6" -> 6 [] c = "7" -> 7
      [] c = "8" -> 8 [] c = "9" -> 9

ParseFail == [ok |-> FALSE]
ParseOk(v, e) == [ok |-> TRUE, val |-> v, end |-> e]

RECURSIVE skip_ws(_, _)
skip_ws(s, i) == IF Ch(s, i) \in JsonWhitespace THEN skip_ws(s, i + 1) ELSE i

\* the index of the quote that closes a string whose content starts at i;
\* 0 when the string is unterminated or holds a control character
RECURSIVE scan_string(_, _)
scan_string(s, i) ==
    IF i > Len(s) \/ Ch(s, i) = "\t" THEN 0
    ELSE IF Ch(s, i) = "\"" THEN i
    ELSE scan_string(s, i + 1)

parse_string(s, i) ==
    LET close == scan_string(s, i + 1)
    IN  IF close = 0 THEN ParseFail
        ELSE ParseOk(JStr(Sub(s, i + 1, close - 1)), close + 1)

\* the end (exclusive) of the run of digits from i
RECURSIVE scan_digits(_, _)
scan_digits(s, i) == IF Ch(s, i) \in Digits THEN scan_digits(s, i + 1) ELSE i

RECURSIVE digits_value(_, _, _, _)
digits_value(s, i, e, acc) ==
    IF i >= e THEN acc
    ELSE digits_value(s, i + 1, e, 10 * acc + DigitVal(Ch(s, i)))

\* -?(0|[1-9][0-9]*)
parse_number(s, i) ==
    LET neg == Ch(s, i) = "-"
        d == IF neg THEN i + 1 ELSE i
        e == IF Ch(s, d) = "0" THEN d + 1 ELSE scan_digits(s, d)
    IN  IF e = d THEN ParseFail
        ELSE ParseOk(JNum((IF neg THEN -1 ELSE 1) * digits_value(s, d, e, 0)), e)

RECURSIVE parse_value(_, _)
RECURSIVE parse_members(_, _, _)
RECURSIVE parse_elements(_, _, _)

\* after a '{' or a ',': "key" : value, then ',' or '}'
parse_members(s, i, acc) ==
    IF Ch(s, i) # "\"" THEN ParseFail
    ELSE
      LET key == parse_string(s, i)
      IN  IF ~key.ok THEN ParseFail
          ELSE
            LET colon == skip_ws(s, key.end)
            IN  IF Ch(s, colon) # ":" THEN ParseFail
                ELSE
                  LET v == parse_value(s, skip_ws(s, colon + 1))
                  IN  IF ~v.ok THEN ParseFail
                      ELSE
                        LET nxt == skip_ws(s, v.end)
                            o == dict_set(acc, key.val.s, v.val)
                        IN  IF Ch(s, nxt) = "}" THEN ParseOk(JObj(o), nxt + 1)
                            ELSE IF Ch(s, nxt) = ","
                            THEN parse_members(s, skip_ws(s, nxt + 1), o)
                            ELSE ParseFail

\* after a '[' or a ',': value, then ',' or ']'
parse_elements(s, i, acc) ==
    LET v == parse_value(s, i)
    IN  IF ~v.ok THEN ParseFail
        ELSE
          LET nxt == skip_ws(s, v.end)
              a == Append(acc, v.val)
          IN  IF Ch(s, nxt) = "]" THEN ParseOk(JArr(a), nxt + 1)
              ELSE IF Ch(s, nxt) = ","
              THEN parse_elements(s, skip_ws(s, nxt + 1), a)
              ELSE ParseFail

parse_value(s, i) ==
    LET c == Ch(s, i)
    IN  CASE c = "\"" -> parse_string(s, i)
          [] c = "{" ->
               LET j == skip_ws(s, i + 1)
               IN  IF Ch(s, j) = "}" THEN ParseOk(JObj(EmptyDict), j + 1)
                   ELSE parse_members(s, j, EmptyDict)
          [] c = "[" ->
               LET j == skip_ws(s, i + 1)
               IN  IF Ch(s, j) = "]" THEN ParseOk(JArr(<<>>), j + 1)
                   ELSE parse_elements(s, j, <<>>)
          [] c = "n" /\ Sub(s, i, i + 3) = "null" -> ParseOk(None, i + 4)
          [] c = "t" /\ Sub(s, i, i + 3) = "true" -> ParseOk(JBool(TRUE), i + 4)
          [] c = "f" /\ Sub(s, i, i + 4) = "false" -> ParseOk(JBool(FALSE), i + 5)
          [] c = "-" \/ c \in Digits -> parse_number(s, i)
          [] OTHER -> ParseFail

\* json.loads(raw): [ok |-> TRUE, val |-> the value], or [ok |-> FALSE] where
\* Python raises json.JSONDecodeError (no value, or text after the value)
json_loads(raw) ==
    LET v == parse_value(raw, skip_ws(raw, 1))
    IN  IF v.ok /\ skip_ws(raw, v.end) > Len(raw)
        THEN [ok |-> TRUE, val |-> v.val]
        ELSE ParseFail

\* ------------------------------------------------------------ the wire text

DigitChar(n) == SubSeq("0123456789", n + 1, n + 1)

RECURSIVE nat_str(_)
nat_str(n) == IF n < 10 THEN DigitChar(n) ELSE nat_str(n \div 10) \o DigitChar(n % 10)

RECURSIVE dumps(_, _)
RECURSIVE dump_members(_, _, _)
RECURSIVE dump_elements(_, _, _)

dump_members(o, keys, sp) ==
    LET k == CHOOSE x \in keys : TRUE
        one == "\"" \o k \o "\":" \o sp \o dumps(o[k], sp)
    IN  IF keys = {k} THEN one
        ELSE one \o "," \o sp \o dump_members(o, keys \ {k}, sp)

dump_elements(a, i, sp) ==
    IF i = Len(a) THEN dumps(a[i], sp)
    ELSE dumps(a[i], sp) \o "," \o sp \o dump_elements(a, i + 1, sp)

\* The JSON text the server puts on a data: line for a value: without spaces
\* (sp = "", as in the spec's scenarios) or with a space after ':' and ','
\* (sp = " ", as in the tests' streams).
dumps(v, sp) ==
    CASE v.t = "str" -> "\"" \o v.s \o "\""
      [] v.t = "num" -> IF v.n < 0 THEN "-" \o nat_str(-v.n) ELSE nat_str(v.n)
      [] v.t = "bool" -> IF v.b THEN "true" ELSE "false"
      [] v.t = "null" -> "null"
      [] v.t = "obj" ->
           IF DOMAIN v.o = {} THEN "{}"
           ELSE "{" \o dump_members(v.o, DOMAIN v.o, sp) \o "}"
      [] v.t = "arr" ->
           IF Len(v.a) = 0 THEN "[]"
           ELSE "[" \o dump_elements(v.a, 1, sp) \o "]"

Separators == {"", " "}

\* the nine event names _parse_event knows
KnownNames ==
    {"message", "text_delta", "thinking_delta", "tool_use", "tool_result",
     "turn_complete", "session_start", "error", "done"}

\* the names a single-frame input is built with: the known ones, an unknown
\* one, a known one in another case, and the empty name
FrameNames == KnownNames \cup {"custom_event", "Done", ""}

Dict1(k1, v1) == JObj(dict_set(EmptyDict, k1, v1))
Dict2(k1, v1, k2, v2) == JObj(dict_set(Dict1(k1, v1).o, k2, v2))
Dict3(k1, v1, k2, v2, k3, v3) == JObj(dict_set(Dict2(k1, v1, k2, v2).o, k3, v3))

\* the payloads a single-frame input is built with: the tests' payload of
\* each event type, objects that omit fields, an object whose fields have
\* other types, and one value of each JSON type that is not an object
Payloads ==
    << Dict1("delta", JStr("Hello ")),
       Dict3("id", JStr("t1"), "name", JStr("Read"),
             "input", Dict1("path", JStr("/tmp"))),
       Dict3("tool_use_id", JStr("t1"), "content", JStr("not found"),
             "is_error", JBool(TRUE)),
       Dict2("tool_use_id", JStr("t1"), "content", JStr("x")),
       Dict2("numTurns", JNum(3), "result", JStr("done")),
       Dict2("sessionId", JStr("abc-123"), "version", JStr("0.0.16")),
       Dict1("sessionId", JStr("s1")),
       Dict1("error", JStr("Session not found")),
       Dict2("type", JStr("assistant"), "message", Dict1("content", JStr("hi"))),
       JObj(EmptyDict),
       Dict3("delta", JNum(7), "error", None, "is_error", JStr("no")),
       Dict1("foo", JStr("bar")),
       JNum(5),
       JArr(<<JNum(1), JStr("x")>>),
       JStr("x"),
       JBool(TRUE),
       None >>

\* the lines of one frame: event line, data line, blank line
Frame(name, payload, sp) ==
    << "event: " \o name, "data: " \o dumps(payload, sp), "" >>

\* the lines the bounded streams are built from
StreamLines ==
    { "event: done",
      "event: message",
      "event:  custom_event ",
      "data: {\"sessionId\":\"s1\"}",
      "data: not-json",
      "data: [1]",
      "",
      ": keep-alive",
      "id: 7" }

\* the longest bounded stream
MaxLines == 3

\* all streams of at most n lines
RECURSIVE StreamsUpTo(_)
StreamsUpTo(n) ==
    IF n = 0 THEN {<<>>}
    ELSE LET shorter == StreamsUpTo(n - 1)
         IN  shorter \cup
             {Append(s, l) : s \in {x \in shorter : Len(x) = n - 1}, l \in StreamLines}

\* the streams of the tests and of the scenarios
Scenarios ==
    << \* test_parse_sse_stream_sync: sse_lines.split("\n")
       << "event: session_start",
          "data: {\"sessionId\": \"s1\", \"version\": \"0.0.16\"}",
          "",
          "event: message",
          "data: {\"type\": \"assistant\", \"message\": {\"content\": \"Hello!\"}}",
          "",
          "event: text_delta",
          "data: {\"delta\": \"Hello\"}",
          "",
          "event: done",
          "data: {\"sessionId\": \"s1\"}",
          "",
          "" >>,
       \* test_parse_sse_stream_skips_invalid_json
       << "event: message", "data: not-json", "",
          "event: done", "data: {\"sessionId\": \"s1\"}", "", "" >>,
       \* two frames of one event name, the same payload
       << "event: message", "data: {\"type\":\"user\"}", "",
          "event: message", "data: {\"type\":\"user\"}", "" >>,
       \* one event line, several data lines, lines of no field between them
       << "event: text_delta", "data: {\"delta\":\"a\"}", "", ": keep-alive",
          "data: {\"delta\":\"b\"}", "retry: 3000", "data: {\"delta\":\"a\"}" >>,
       \* payloads that are JSON but no object, under a name that reads fields
       << "event: done", "data: 5", "data: {\"sessionId\":\"s1\"}" >>,
       << "event: error", "data: {\"error\":\"boom\"}", "",
          "data: null", "event: done", "data: {}" >>,
       \* data lines that are not JSON, of several kinds, and one that is
       << "event: custom_event", "data: ", "data: {\"a\":", "data: {} x",
          "data: {'a': 1}", "data: nul", "hello", "data: {\"a\": 1}" >>,
       \* lines that miss a field prefix by its space, its case or a leading
       \* space, after an event line and before a data line
       << "event: message", "event:done", "Event: done", "EVENT: done",
          "data:{}", "DATA: {}", " data: {}", " event: done", "data: {}" >>,
       \* event names and payloads with whitespace around them, an event line
       \* of the prefix alone, a form feed before a payload and around a name
       << "data: {\"a\": 1}", "event:   done  ", "data:  {\"sessionId\":\"s1\"} ",
          "event: ", "data: \f{}", "data: \t{} ",
          "event: \ftext_delta\f", "data: {\"delta\":\"a\"}\f", "data: {\"delta\":\"a\"}" >> >>

\* ------------------------------------------------------------ _parse_event

\* the event classes: a record of the class name and the dataclass fields
\* StreamEvent keeping only a payload of its declared type, dict[str, Any]
StreamEvent_dict_only(event, data) ==
    [type |-> "StreamEvent", event |-> event,
     data |-> IF data.t = "obj" THEN data ELSE [t |-> "obj", o |-> <<>>]]

StreamEvent(event, data) == [type |-> "StreamEvent", event |-> event, data |-> data]
MessageEvent(data) == [type |-> "MessageEvent", data |-> data]
TextDeltaEvent(delta) == [type |-> "TextDeltaEvent", delta |-> delta]
ThinkingDeltaEvent(delta) == [type |-> "ThinkingDeltaEvent", delta |-> delta]
ToolUseEvent(id, name, input) ==
    [type |-> "ToolUseEvent", id |-> id, name |-> name, input |-> input]
ToolResultEvent(tool_use_id, content, is_error) ==
    [type |-> "ToolResultEvent", tool_use_id |-> tool_use_id,
     content |-> content, is_error |-> is_error]
TurnCompleteEvent(num_turns, result) ==
    [type |-> "TurnCompleteEvent", num_turns |-> num_turns, result |-> result]
SessionStartEvent(session_id, version) ==
    [type |-> "SessionStartEvent", session_id |-> session_id, version |-> version]
ErrorEvent(error) == [type |-> "ErrorEvent", error |-> error]
DoneEvent(session_id) == [type |-> "DoneEvent", session_id |-> session_id]

\* Of the values json.loads returns only a dict has the attribute get: on a
\* list, str, int, bool or None the expression data.get raises AttributeError.
has_get(data) == data.t = "obj"

\* dict_get reading the snake_case spelling of a camelCase key
dict_get_snake_key(data, key, default) ==
    LET k == CASE key = "sessionId" -> "session_id"
               [] key = "numTurns" -> "num_turns"
               [] OTHER -> key
    IN  IF k \in DOMAIN data.o THEN data.o[k] ELSE default

\* dict_get called without its default: data.get(key)
dict_get_no_default(data, key, default) ==
    IF key \in DOMAIN data.o THEN data.o[key] ELSE None

\* data.get(key, default) on a dict
dict_get(data, key, default) ==
    IF key \in DOMAIN data.o THEN data.o[key] ELSE default

Return(event) == [raised |-> FALSE, event |-> event]
AttributeError == [raised |-> TRUE]

_parse_event(event_type, data) ==
    IF event_type = "message" THEN
        Return(MessageEvent(data))
    ELSE IF event_type = "text_delta" THEN
        IF ~has_get(data) THEN AttributeError
        ELSE Return(TextDeltaEvent(dict_get(data, "delta", JStr(""))))
    ELSE IF event_type = "thinking_delta" THEN
        IF ~has_get(data) THEN AttributeError
        ELSE Return(ThinkingDeltaEvent(dict_get(data, "delta", JStr(""))))
    ELSE IF event_type = "tool_use" THEN
        IF ~has_get(data) THEN AttributeError
        ELSE Return(ToolUseEvent(dict_get(data, "id", JStr("")),
                                 dict_get(data, "name", JStr("")),
                                 dict_get(data, "input", None)))
    ELSE IF event_type = "tool_result" THEN
        IF ~has_get(data) THEN AttributeError
        ELSE Return(ToolResultEvent(dict_get(data, "tool_use_id", JStr("")),
                                    dict_get(data, "content", None),
                                    dict_get(data, "is_error", JBool(FALSE))))
    ELSE IF event_type = "turn_complete" THEN
        IF ~has_get(data) THEN AttributeError
        ELSE Return(TurnCompleteEvent(dict_get(data, "numTurns", None),
                                      dict_get(data, "result", None)))
    ELSE IF event_type = "session_start" THEN
        IF ~has_get(data) THEN AttributeError
        ELSE Return(SessionStartEvent(dict_get(data, "sessionId", JStr("")),
                                      dict_get(data, "version", None)))
    ELSE IF event_type = "error" THEN
        IF ~has_get(data) THEN AttributeError
        ELSE Return(ErrorEvent(dict_get(data, "error", JStr("Unknown error"))))
    ELSE IF event_type = "done" THEN
        IF ~has_get(data) THEN AttributeError
        ELSE Return(DoneEvent(dict_get(data, "sessionId", JStr(""))))
    ELSE
        Return(StreamEvent(event_type, data))

\* ------------------------------------------------------------ the generators

\* the two generators, each run on a response of its own
Decoders == {"sync", "async"}

VARIABLES
    response,       \* per generator: the lines its response yields
    pos,            \* per generator: how many of them it has consumed
    current_event,  \* per generator: its local current_event
    events,         \* per generator: the events it has yielded, in order
    status,         \* per generator: "running", "exhausted" (it returned) or
                    \*   "raised" (an exception left it)
    given           \* the input's construction: kind "frame" with the name,
                    \*   the index in Payloads and the separator it was built
                    \*   from, or kind "stream" / "scenario"

\* a generated model under from_dict / to_dict
VARIABLES
    src,            \* the input: the class, and the dict given to from_dict or
                    \*   the keyword arguments given to the constructor
    obj,            \* the instance from_dict or the constructor returned, or
                    \*   the exception that left it
    out             \* what to_dict returned for the instance

\* an AshClient (ash_client.py)
VARIABLES
    client,         \* the instance: its base_url and its token
    headers,        \* the last direct call of _headers: its arguments and
                    \*   the dict it returned
    requests,       \* the HTTP requests issued so far, in order
    ended           \* what end_session left: the Session it returned or the
                    \*   exception that left it, with the replies it was given

\* a generated endpoint module (ash_sdk/api)
VARIABLES
    endpoint,       \* the endpoint called and the client's
                    \*   raise_on_unexpected_status
    http_response,  \* the httpx.Response the request returned
    detailed        \* what sync_detailed left: the Response or the exception

\* a call of send_message_stream (ash_client.py, client.py)
VARIABLES
    call            \* the generator the call returned: the method, its
                    \*   arguments, what the server makes of the request,
                    \*   where the generator stands ("created", "suspended"
                    \*   at a yield, "ended"), whether its httpx client and
                    \*   its response stream are open, the exception that
                    \*   left it, and whether the consumer closed it

sse_vars == <<response, pos, current_event, events, status, given>>
model_vars == <<src, obj, out>>
client_vars == <<client, headers, requests, ended>>
endpoint_vars == <<endpoint, http_response, detailed>>
stream_vars == <<call>>

vars == <<sse_vars, model_vars, client_vars, endpoint_vars, stream_vars>>

\* a call that has not been made
NotCalled == [exc |-> "none", val |-> None]

\* no generator is at work
NoStreams ==
    /\ response = [d \in Decoders |-> <<>>]
    /\ pos = [d \in Decoders |-> 0]
    /\ current_event = [d \in Decoders |-> ""]
    /\ events = [d \in Decoders |-> <<>>]
    /\ status = [d \in Decoders |-> "idle"]
    /\ given = [kind |-> "none", name |-> "", payload |-> 0, sp |-> ""]

\* no model is at work
NoModels ==
    /\ src = [kind |-> "none", cls |-> "", d |-> EmptyDict]
    /\ obj = NotCalled
    /\ out = NotCalled

\* no AshClient is at work
NoClient ==
    /\ client = [base_url |-> "", token |-> None]
    /\ headers = [content_type |-> None, streaming |-> FALSE, result |-> NotCalled]
    /\ requests = <<>>
    /\ ended = [result |-> NotCalled, session_id |-> "",
                stop |-> [error |-> "", status_code |-> 0, text |-> ""],
                delete |-> [error |-> "", status_code |-> 0, text |-> ""]]

\* no endpoint is at work
NoEndpoint ==
    /\ endpoint = [name |-> "", raise_on_unexpected_status |-> FALSE]
    /\ http_response = [status_code |-> 0, content |-> "", headers |-> EmptyDict]
    /\ detailed = NotCalled

\* no exception
NoException == [exc |-> "", error |-> None, status_code |-> None]

\* no call of send_message_stream is at work
NoCall ==
    call = [who |-> "", session_id |-> "", include_partial_messages |-> FALSE,
            reply |-> [error |-> "", status_code |-> 0, lines |-> <<>>, breaks |-> FALSE],
            phase |-> "none", client_open |-> FALSE, stream_open |-> FALSE,
            left |-> NoException, closed |-> FALSE]

\* a generator whose current_event starts as "message", the default event
\* name of SSE framing
Start_message_default(lines, how) ==
    /\ response = [d \in Decoders |-> lines]
    /\ pos = [d \in Decoders |-> 0]
    /\ current_event = [d \in Decoders |-> "message"]
    /\ events = [d \in Decoders |-> <<>>]
    /\ status = [d \in Decoders |-> "running"]
    /\ given = how
    /\ NoModels /\ NoClient /\ NoEndpoint /\ NoCall

Start(lines, how) ==
    /\ response = [d \in Decoders |-> lines]
    /\ pos = [d \in Decoders |-> 0]
    /\ current_event = [d \in Decoders |-> ""]
    /\ events = [d \in Decoders |-> <<>>]
    /\ status = [d \in Decoders |-> "running"]
    /\ given = how
    /\ NoModels /\ NoClient /\ NoEndpoint /\ NoCall

Init ==
    \/ \E name \in FrameNames, i \in 1..Len(Payloads), sp \in Separators :
         Start(Frame(name, Payloads[i], sp),
               [kind |-> "frame", name |-> name, payload |-> i, sp |-> sp])
    \/ \E lines \in StreamsUpTo(MaxLines) :
         Start(lines, [kind |-> "stream", name |-> "", payload |-> 0, sp |-> ""])
    \/ \E i \in 1..Len(Scenarios) :
         Start(Scenarios[i],
               [kind |-> "scenario", name |-> "", payload |-> i, sp |-> ""])

\* the lines of two generators that run at the same time, each on a response
\* of its own
PairLines ==
    {"event: done", "event: message", "data: {\"sessionId\":\"s1\"}", "data: [1]"}

\* the longest response of such a pair
MaxPairLines == 2

RECURSIVE PairStreamsUpTo(_)
PairStreamsUpTo(n) ==
    IF n = 0 THEN {<<>>}
    ELSE LET shorter == PairStreamsUpTo(n - 1)
         IN  shorter \cup
             {Append(s, l) : s \in {x \in shorter : Len(x) = n - 1}, l \in PairLines}

\* parse_sse_stream(r1) and parse_sse_stream_async(r2) called on two
\* responses: each call starts with a current_event of its own
InitPair ==
    \E l1 \in PairStreamsUpTo(MaxPairLines), l2 \in PairStreamsUpTo(MaxPairLines) :
        /\ response = [d \in Decoders |-> IF d = "sync" THEN l1 ELSE l2]
        /\ pos = [d \in Decoders |-> 0]
        /\ current_event = [d \in Decoders |-> ""]
        /\ events = [d \in Decoders |-> <<>>]
        /\ status = [d \in Decoders |-> "running"]
        /\ given = [kind |-> "pair", name |-> "", payload |-> 0, sp |-> ""]
        /\ NoModels /\ NoClient /\ NoEndpoint /\ NoCall

\* what one pass of the loop body leaves: the local current_event, the events
\* it yielded (none or one), and whether an exception left the generator
Pass(name, yielded, raised) ==
    [current_event |-> name, yielded |-> yielded, raised |-> raised]

\* the loop body without its except clause: json.JSONDecodeError leaves the
\* generator
loop_body_no_except(current, line) ==
    IF startswith(line, "event: ") THEN
        Pass(strip(slice_from(line, 7)), <<>>, FALSE)
    ELSE IF startswith(line, "data: ") THEN
        LET data == json_loads(slice_from(line, 6))
        IN  IF ~data.ok THEN Pass(current, <<>>, TRUE)
            ELSE LET r == _parse_event(current, data.val)
                 IN  IF r.raised THEN Pass(current, <<>>, TRUE)
                     ELSE Pass(current, <<r.event>>, FALSE)
    ELSE
        Pass(current, <<>>, FALSE)

\* the loop body of a decoder that ends the frame at a blank line, as strict
\* SSE framing does: the blank line clears current_event
loop_body_blank_resets(current, line) ==
    IF startswith(line, "event: ") THEN
        Pass(strip(slice_from(line, 7)), <<>>, FALSE)
    ELSE IF startswith(line, "data: ") THEN
        LET data == json_loads(slice_from(line, 6))
        IN  IF ~data.ok THEN Pass(current, <<>>, FALSE)
            ELSE LET r == _parse_event(current, data.val)
                 IN  IF r.raised THEN Pass(current, <<>>, TRUE)
                     ELSE Pass(current, <<r.event>>, FALSE)
    ELSE IF line = "" THEN
        Pass("", <<>>, FALSE)
    ELSE
        Pass(current, <<>>, FALSE)

\* the loop body of a decoder that announces every event line with an event
\* of its own
loop_body_yield_on_event(current, line) ==
    IF startswith(line, "event: ") THEN
        Pass(strip(slice_from(line, 7)),
             <<StreamEvent(strip(slice_from(line, 7)), JObj(EmptyDict))>>, FALSE)
    ELSE IF startswith(line, "data: ") THEN
        LET data == json_loads(slice_from(line, 6))
        IN  IF ~data.ok THEN Pass(current, <<>>, FALSE)
            ELSE LET r == _parse_event(current, data.val)
                 IN  IF r.raised THEN Pass(current, <<>>, TRUE)
                     ELSE Pass(current, <<r.event>>, FALSE)
    ELSE
        Pass(current, <<>>, FALSE)

\* the async loop body taking the event name untrimmed: line[7:]
loop_body_async_no_strip(current, line) ==
    IF startswith(line, "event: ") THEN
        Pass(slice_from(line, 7), <<>>, FALSE)
    ELSE IF startswith(line, "data: ") THEN
        LET data == json_loads(slice_from(line, 6))
        IN  IF ~data.ok THEN Pass(current, <<>>, FALSE)
            ELSE LET r == _parse_event(current, data.val)
                 IN  IF r.raised THEN Pass(current, <<>>, TRUE)
                     ELSE Pass(current, <<r.event>>, FALSE)
    ELSE
        Pass(current, <<>>, FALSE)

\* the loop body keeping the first event name of a run of event lines: an
\* event line sets the name only when none is pending
loop_body_first_name_wins(current, line) ==
    IF startswith(line, "event: ") THEN
        Pass(IF current = "" THEN strip(slice_from(line, 7)) ELSE current,
             <<>>, FALSE)
    ELSE IF startswith(line, "data: ") THEN
        LET data == json_loads(slice_from(line, 6))
        IN  IF ~data.ok THEN Pass(current, <<>>, FALSE)
            ELSE LET r == _parse_event(current, data.val)
                 IN  IF r.raised THEN Pass(current, <<>>, TRUE)
                     ELSE Pass(current, <<r.event>>, FALSE)
    ELSE
        Pass(current, <<>>, FALSE)

\* the loop body trimming the payload before it parses it:
\* line[6:].strip()
loop_body_strips_payload(current, line) ==
    IF startswith(line, "event: ") THEN
        Pass(strip(slice_from(line, 7)), <<>>, FALSE)
    ELSE IF startswith(line, "data: ") THEN
        LET data == json_loads(strip(slice_from(line, 6)))
        IN  IF ~data.ok THEN Pass(current, <<>>, FALSE)
            ELSE LET r == _parse_event(current, data.val)
                 IN  IF r.raised THEN Pass(current, <<>>, TRUE)
                     ELSE Pass(current, <<r.event>>, FALSE)
    ELSE
        Pass(current, <<>>, FALSE)

\* the loop body of a decoder whose event name lives for one frame: the
\* name is cleared once a data line has yielded its event
loop_body_name_per_frame(current, line) ==
    IF startswith(line, "event: ") THEN
        Pass(strip(slice_from(line, 7)), <<>>, FALSE)
    ELSE IF startswith(line, "data: ") THEN
        LET data == json_loads(slice_from(line, 6))
        IN  IF ~data.ok THEN Pass(current, <<>>, FALSE)
            ELSE LET r == _parse_event(current, data.val)
                 IN  IF r.raised THEN Pass(current, <<>>, TRUE)
                     ELSE Pass("", <<r.event>>, FALSE)
    ELSE
        Pass(current, <<>>, FALSE)

\* the loop body whose except clause drops the pending name with the line:
\* except json.JSONDecodeError: current_event = ""
loop_body_except_resets(current, line) ==
    IF startswith(line, "event: ") THEN
        Pass(strip(slice_from(line, 7)), <<>>, FALSE)
    ELSE IF startswith(line, "data: ") THEN
        LET data == json_loads(slice_from(line, 6))
        IN  IF ~data.ok THEN Pass("", <<>>, FALSE)
            ELSE LET r == _parse_event(current, data.val)
                 IN  IF r.raised THEN Pass(current, <<>>, TRUE)
                     ELSE Pass(current, <<r.event>>, FALSE)
    ELSE
        Pass(current, <<>>, FALSE)

\* The body of the for loop of parse_sse_stream on one line.
loop_body(current, line) ==
    IF startswith(line, "event: ") THEN
        Pass(strip(slice_from(line, 7)), <<>>, FALSE)
    ELSE IF startswith(line, "data: ") THEN
        LET raw == slice_from(line, 6)
            data == json_loads(raw)
        IN  IF ~data.ok THEN
                \* except json.JSONDecodeError: pass
                Pass(current, <<>>, FALSE)
            ELSE
                LET r == _parse_event(current, data.val)
                IN  IF r.raised THEN Pass(current, <<>>, TRUE)
                    ELSE Pass(current, <<r.event>>, FALSE)
    ELSE
        Pass(current, <<>>, FALSE)

\* The body of the async for loop of parse_sse_stream_async on one line.
loop_body_async(current, line) ==
    IF startswith(line, "event: ") THEN
        Pass(strip(slice_from(line, 7)), <<>>, FALSE)
    ELSE IF startswith(line, "data: ") THEN
        LET raw == slice_from(line, 6)
            data == json_loads(raw)
        IN  IF ~data.ok THEN
                Pass(current, <<>>, FALSE)
            ELSE
                LET r == _parse_event(current, data.val)
                IN  IF r.raised THEN Pass(current, <<>>, TRUE)
                    ELSE Pass(current, <<r.event>>, FALSE)
    ELSE
        Pass(current, <<>>, FALSE)

\* parse_sse_stream with current_event a module-level name that every
\* invocation reads and writes
parse_sse_stream_shared_name ==
    /\ status["sync"] = "running"
    /\ \/ /\ pos["sync"] < Len(response["sync"])
          /\ LET r == loop_body(current_event["sync"],
                                response["sync"][pos["sync"] + 1])
             IN  /\ current_event' = [d \in Decoders |-> r.current_event]
                 /\ events' = [events EXCEPT !["sync"] = @ \o r.yielded]
                 /\ status' = [status EXCEPT !["sync"] =
                                   IF r.raised THEN "raised" ELSE @]
          /\ pos' = [pos EXCEPT !["sync"] = @ + 1]
       \/ /\ pos["sync"] = Len(response["sync"])
          /\ status' = [status EXCEPT !["sync"] = "exhausted"]
          /\ UNCHANGED <<pos, current_event, events>>
    /\ UNCHANGED <<response, given, model_vars, client_vars, endpoint_vars, stream_vars>>

\* One pull of parse_sse_stream: the next line of response.iter_lines() and
\* the loop body's pass over it, or the end of the lines and the return.
parse_sse_stream ==
    /\ status["sync"] = "running"
    /\ \/ /\ pos["sync"] < Len(response["sync"])
          /\ LET r == loop_body(current_event["sync"],
                                response["sync"][pos["sync"] + 1])
             IN  /\ current_event' = [current_event EXCEPT !["sync"] = r.current_event]
                 /\ events' = [events EXCEPT !["sync"] = @ \o r.yielded]
                 /\ status' = [status EXCEPT !["sync"] =
                                   IF r.raised THEN "raised" ELSE @]
          /\ pos' = [pos EXCEPT !["sync"] = @ + 1]
       \/ /\ pos["sync"] = Len(response["sync"])
          /\ status' = [status EXCEPT !["sync"] = "exhausted"]
          /\ UNCHANGED <<pos, current_event, events>>
    /\ UNCHANGED <<response, given, model_vars, client_vars, endpoint_vars, stream_vars>>

\* One pull of parse_sse_stream_async, on response.aiter_lines().
parse_sse_stream_async ==
    /\ status["async"] = "running"
    /\ \/ /\ pos["async"] < Len(response["async"])
          /\ LET r == loop_body_async(current_event["async"],
                                      response["async"][pos["async"] + 1])
             IN  /\ current_event' = [current_event EXCEPT !["async"] = r.current_event]
                 /\ events' = [events EXCEPT !["async"] = @ \o r.yielded]
                 /\ status' = [status EXCEPT !["async"] =
                                   IF r.raised THEN "raised" ELSE @]
          /\ pos' = [pos EXCEPT !["async"] = @ + 1]
       \/ /\ pos["async"] = Len(response["async"])
          /\ status' = [status EXCEPT !["async"] = "exhausted"]
          /\ UNCHANGED <<pos, current_event, events>>
    /\ UNCHANGED <<response, given, model_vars, client_vars, endpoint_vars, stream_vars>>

Next == parse_sse_stream \/ parse_sse_stream_async

Spec == Init /\ [][Next]_vars

\* the two generators at the same time, each on its own response, their
\* pulls interleaved in every order
SpecPair == InitPair /\ [][Next]_vars

\* ------------------------------------------------------------ the mapping table

\* The table of the event names: the class each known name maps to, ...
RowVariant(name) ==
    CASE name = "message" -> "MessageEvent"
      [] name = "text_delta" -> "TextDeltaEvent"
      [] name = "thinking_delta" -> "ThinkingDeltaEvent"
      [] name = "tool_use" -> "ToolUseEvent"
      [] name = "tool_result" -> "ToolResultEvent"
      [] name = "turn_complete" -> "TurnCompleteEvent"
      [] name = "session_start" -> "SessionStartEvent"
      [] name = "error" -> "ErrorEvent"
      [] name = "done" -> "DoneEvent"
      [] OTHER -> "StreamEvent"

\* ... the payload key each field of the class is read from, ...
RowKeys(name) ==
    CASE name = "text_delta" -> [delta |-> "delta"]
      [] name = "thinking_delta" -> [delta |-> "delta"]
      [] name = "tool_use" -> [id |-> "id", name |-> "name", input |-> "input"]
      [] name = "tool_result" ->
           [tool_use_id |-> "tool_use_id", content |-> "content", is_error |-> "is_error"]
      [] name = "turn_complete" -> [num_turns |-> "numTurns", result |-> "result"]
      [] name = "session_start" -> [session_id |-> "sessionId", version |-> "version"]
      [] name = "error" -> [error |-> "error"]
      [] name = "done" -> [session_id |-> "sessionId"]

\* ... and the value a field takes when the payload omits its key.
RowDefaults(name) ==
    CASE name = "text_delta" -> [delta |-> JStr("")]
      [] name = "thinking_delta" -> [delta |-> JStr("")]
      [] name = "tool_use" -> [id |-> JStr(""), name |-> JStr(""), input |-> None]
      [] name = "tool_result" ->
           [tool_use_id |-> JStr(""), content |-> None, is_error |-> JBool(FALSE)]
      [] name = "turn_complete" -> [num_turns |-> None, result |-> None]
      [] name = "session_start" -> [session_id |-> JStr(""), version |-> None]
      [] name = "error" -> [error |-> JStr("Unknown error")]
      [] name = "done" -> [session_id |-> JStr("")]

FieldNames == KnownNames \ {"message"}

IsObject(v) == v.t = "obj"

\* the payload carries every field of the name's row
Carries(name, payload) ==
    /\ IsObject(payload)
    /\ name \in FieldNames =>
         \A f \in DOMAIN RowKeys(name) : RowKeys(name)[f] \in DOMAIN payload.o

\* the input is one frame and generator d has consumed its data line
FrameDecoded(d) == given.kind = "frame" /\ pos[d] >= 2

GivenPayload == Payloads[given.payload]

\* C1: for every known event name N and every JSON-object payload J that
\* carries the fields of N's row, decoding the three lines 'event: N',
\* 'data: J', '' yields exactly one event, of the class mapped to N, whose
\* fields are exactly the row's fields and equal the payload's values (for
\* message, the whole object); no exception is raised.
C1_KnownFrameDecodes ==
    \A d \in Decoders :
        (/\ FrameDecoded(d)
         /\ given.name \in KnownNames
         /\ Carries(given.name, GivenPayload))
        => /\ status[d] # "raised"
           /\ Len(events[d]) = 1
           /\ events[d][1].type = RowVariant(given.name)
           /\ IF given.name = "message"
              THEN events[d][1] = [type |-> "MessageEvent", data |-> GivenPayload]
              ELSE /\ DOMAIN events[d][1] = {"type"} \cup DOMAIN RowKeys(given.name)
                   /\ \A f \in DOMAIN RowKeys(given.name) :
                        events[d][1][f] = GivenPayload.o[RowKeys(given.name)[f]]

\* a turn_complete frame with numTurns and result has been decoded to the end
C1_Witness ==
    /\ given.kind = "frame" /\ given.name = "turn_complete"
    /\ Carries("turn_complete", GivenPayload)
    /\ status["sync"] = "exhausted"
    /\ events["sync"] = <<TurnCompleteEvent(JNum(3), JStr("done"))>>

\* C2: when the JSON-object payload of a known event omits a field, the
\* yielded event carries the table's default in that field and no exception
\* is raised (one event is still yielded).
C2_OmittedFieldDefaults ==
    \A d \in Decoders :
        (/\ FrameDecoded(d)
         /\ given.name \in FieldNames
         /\ IsObject(GivenPayload))
        => /\ status[d] # "raised"
           /\ Len(events[d]) = 1
           /\ \A f \in DOMAIN RowKeys(given.name) :
                RowKeys(given.name)[f] \notin DOMAIN GivenPayload.o
                => events[d][1][f] = RowDefaults(given.name)[f]

\* scenario C: a tool_result frame without is_error has been decoded
C2_Witness ==
    /\ given.kind = "frame" /\ given.name = "tool_result"
    /\ IsObject(GivenPayload)
    /\ DOMAIN GivenPayload.o = {"tool_use_id", "content"}
    /\ status["async"] = "exhausted"
    /\ events["async"] = <<ToolResultEvent(JStr("t1"), JStr("x"), JBool(FALSE))>>

\* ------------------------------------------------------------ streams

\* the lines generator d has consumed
Consumed(d) == SubSeq(response[d], 1, pos[d])

IsEventLine(line) == startswith(line, "event: ")
IsDataLine(line) == ~IsEventLine(line) /\ startswith(line, "data: ")

\* texts that are not JSON: a bare word, nothing, a truncated object, text
\* after the value, single quotes, a truncated literal
NotJson == {"not-json", "", "{\"a\":", "{} x", "{'a': 1}", "nul"}

IsNotJsonLine(line) == \E raw \in NotJson : line = "data: " \o raw

RECURSIVE WithoutNotJson(_)
WithoutNotJson(lines) ==
    IF lines = <<>> THEN <<>>
    ELSE IF IsNotJsonLine(Head(lines)) THEN WithoutNotJson(Tail(lines))
    ELSE <<Head(lines)>> \o WithoutNotJson(Tail(lines))

BodyOf(d, current, line) ==
    IF d = "sync" THEN loop_body(current, line) ELSE loop_body_async(current, line)

\* what generator d has made of its lines so far
Outcome(d) ==
    [current_event |-> current_event[d], events |-> events[d],
     raised |-> status[d] = "raised"]

\* what generator d makes of the lines from the i-th on, started from acc
RECURSIVE Replay(_, _, _, _)
Replay(d, lines, i, acc) ==
    IF i > Len(lines) \/ acc.raised THEN acc
    ELSE LET r == BodyOf(d, acc.current_event, lines[i])
         IN  Replay(d, lines, i + 1,
                    [current_event |-> r.current_event,
                     events |-> acc.events \o r.yielded,
                     raised |-> r.raised])

Fresh == [current_event |-> "", events |-> <<>>, raised |-> FALSE]

\* C3: a 'data: ' line whose remainder is not valid JSON yields no event and
\* raises no error, and every later line is decoded exactly as if that line
\* had been absent: what a generator has made of the lines it consumed is
\* what it makes of the same lines with the non-JSON data lines left out.
C3_InvalidJsonSkipped ==
    \A d \in Decoders :
        Outcome(d) = Replay(d, WithoutNotJson(Consumed(d)), 1, Fresh)

\* the stream of test_parse_sse_stream_skips_invalid_json decoded to its end:
\* one DoneEvent with session_id 's1'
C3_Witness ==
    /\ given.kind = "scenario"
    /\ \E i \in 1..Len(response["sync"]) : IsNotJsonLine(response["sync"][i])
    /\ response["sync"][1] = "event: message"
    /\ status["sync"] = "exhausted"
    /\ events["sync"] = <<DoneEvent(JStr("s1"))>>

\* C4: for every finite sequence of input lines, every current event name
\* and every data: payload (unparseable text, or valid JSON of any type),
\* the generator reaches the end of the input without raising an exception.
C4_NeverRaises == \A d \in Decoders : status[d] # "raised"

\* a data line whose remainder json.loads parses
IsValidDataLine(line) == IsDataLine(line) /\ json_loads(slice_from(line, 6)).ok

\* the name an event line sets
NameOf(line) == strip(slice_from(line, 7))

\* the indices of the data lines of p (with valid: of the valid ones), in order
RECURSIVE DataIndices(_, _, _)
DataIndices(p, i, valid) ==
    IF i > Len(p) THEN <<>>
    ELSE (IF (IF valid THEN IsValidDataLine(p[i]) ELSE IsDataLine(p[i]))
          THEN <<i>> ELSE <<>>) \o DataIndices(p, i + 1, valid)

\* the event name in force at line k of p: that of the last event line before
\* it, or the initial ""
RECURSIVE NameAt(_, _)
NameAt(p, k) ==
    IF k <= 1 THEN ""
    ELSE IF IsEventLine(p[k - 1]) THEN NameOf(p[k - 1])
    ELSE NameAt(p, k - 1)

\* p is one event line followed only by lines that are no event line, every
\* data line among them valid, at least one of them
OneNameValidData(p) ==
    /\ Len(p) >= 2
    /\ IsEventLine(p[1])
    /\ \A i \in 2..Len(p) :
         /\ ~IsEventLine(p[i])
         /\ IsDataLine(p[i]) => IsValidDataLine(p[i])
    /\ \E i \in 2..Len(p) : IsDataLine(p[i])

\* C5: the current event name persists until the next 'event: ' line: one
\* 'event: N' line followed by k >= 1 valid 'data: ' lines (with or without
\* blank lines between them, no other event line) yields k events, all of
\* the class mapped to N.
C5_NamePersists ==
    \A d \in Decoders :
        OneNameValidData(Consumed(d))
        => /\ Len(events[d]) = Len(DataIndices(Consumed(d), 1, FALSE))
           /\ \A i \in 1..Len(events[d]) :
                events[d][i].type = RowVariant(NameOf(Consumed(d)[1]))

\* C6: a line that starts with neither 'event: ' nor 'data: ' yields no
\* event and leaves current_event unchanged (and the generator running).
C6_OtherLinesIgnored ==
    [][\A d \in Decoders :
          (/\ pos'[d] = pos[d] + 1
           /\ ~startswith(response[d][pos'[d]], "event: ")
           /\ ~startswith(response[d][pos'[d]], "data: "))
          => /\ events'[d] = events[d]
             /\ current_event'[d] = current_event[d]
             /\ status'[d] = "running"]_vars

\* a blank line, a comment line and a retry: line have been consumed under
\* the name text_delta, which is still the current name
C6_Witness ==
    /\ pos["sync"] >= 6
    /\ Consumed("sync")[3] = ""
    /\ Consumed("sync")[4] = ": keep-alive"
    /\ Consumed("sync")[6] = "retry: 3000"
    /\ current_event["sync"] = "text_delta"
    /\ Len(events["sync"]) >= 2

\* C7: for every event name that is not one of the nine known names and
\* every parsed JSON value v, the decoder yields the fallback StreamEvent
\* with event equal to that name and data equal to v unchanged.
C7_UnknownNameFallback ==
    \A d \in Decoders :
        (FrameDecoded(d) /\ given.name \notin KnownNames)
        => /\ status[d] # "raised"
           /\ events[d] = << [type |-> "StreamEvent", event |-> given.name,
                              data |-> GivenPayload] >>

\* a custom_event frame whose payload is a JSON array has been decoded
C7_Witness ==
    /\ given.kind = "frame" /\ given.name = "custom_event"
    /\ GivenPayload.t = "arr"
    /\ status["sync"] = "exhausted"
    /\ Len(events["sync"]) = 1
    /\ events["sync"][1].data = JArr(<<JNum(1), JStr("x")>>)

\* C8: events are yielded in input order with no coalescing: the i-th
\* yielded event comes from the i-th 'data: ' line that parsed successfully
\* (under the event name in force at that line), so the number of events
\* equals the number of such lines.
C8_OneEventPerParsedLine ==
    \A d \in Decoders :
        LET p == Consumed(d)
            parsed == DataIndices(p, 1, TRUE)
        IN  /\ Len(events[d]) = Len(parsed)
            /\ \A i \in 1..Len(parsed) :
                 LET r == _parse_event(NameAt(p, parsed[i]),
                                       json_loads(slice_from(p[parsed[i]], 6)).val)
                 IN  ~r.raised /\ events[d][i] = r.event

\* the number of 'data: ' lines generator d has consumed
DataLinesConsumed(d) == Len(DataIndices(Consumed(d), 1, FALSE))

\* C9: the decoder yields at most one event per line consumed and buffers
\* nothing but the pending name: the number of events yielded so far is at
\* most the number of 'data: ' lines consumed so far, a step yields at most
\* one event, and consuming an 'event: ' line never yields an event.
C9_AtMostOnePerDataLine ==
    /\ [](\A d \in Decoders : Len(events[d]) <= DataLinesConsumed(d))
    /\ [][\A d \in Decoders :
            /\ Len(events'[d]) <= Len(events[d]) + 1
            /\ (pos'[d] = pos[d] + 1 /\ IsEventLine(response[d][pos'[d]]))
               => events'[d] = events[d]]_vars

\* an event line has been consumed after an event was yielded, and there
\* are as many events as data lines consumed
C9_Witness ==
    /\ pos["async"] >= 3
    /\ IsEventLine(Consumed("async")[pos["async"]])
    /\ Len(events["async"]) = 1
    /\ DataLinesConsumed("async") = 1

\* C10: parse_sse_stream and parse_sse_stream_async are the same state
\* machine: run on the same lines and compared after the same number of
\* lines, they hold the same current_event, have yielded the same events and
\* have raised or not alike; at the end of the lines both have returned.
C10_SyncAsyncAgree ==
    response["sync"] = response["async"]
    => /\ pos["sync"] = pos["async"]
          => /\ current_event["sync"] = current_event["async"]
             /\ events["sync"] = events["async"]
             /\ (status["sync"] = "raised") = (status["async"] = "raised")
       /\ (status["sync"] # "running" /\ status["async"] # "running")
          => /\ events["sync"] = events["async"]
             /\ status["sync"] = status["async"]

\* both generators have decoded the four frames of
\* test_parse_sse_stream_sync to the end
C10_Witness ==
    /\ status["sync"] = "exhausted" /\ status["async"] = "exhausted"
    /\ Len(events["sync"]) = 4
    /\ events["async"][1] = SessionStartEvent(JStr("s1"), JStr("0.0.16"))
    /\ events["async"][4] = DoneEvent(JStr("s1"))

\* C11: decoding terminates exactly when the input line source is
\* exhausted: a generator that has ended has consumed every line of its
\* response, ended by returning, and yielded no event beyond those of its
\* data lines (no terminal event of its own).
C11_EndsAtExhaustion ==
    \A d \in Decoders :
        status[d] # "running"
        => /\ status[d] = "exhausted"
           /\ pos[d] = Len(response[d])
           /\ Len(events[d]) <= DataLinesConsumed(d)

\* C12: concurrent invocations do not interfere: for two invocations over
\* separate line sources, under every interleaving of their pulls each
\* invocation has made of the lines it has consumed exactly what it makes of
\* them when run alone (the events, the pending name, and whether it raised).
C12_NoInterference ==
    \A d \in Decoders : Outcome(d) = Replay(d, Consumed(d), 1, Fresh)

\* two different responses, both decoded to the end: 'event: done' of the
\* one has not tagged the data line of the other
C12_Witness ==
    /\ given.kind = "pair"
    /\ response["sync"] = <<"event: done", "data: {\"sessionId\":\"s1\"}">>
    /\ response["async"] = <<"data: {\"sessionId\":\"s1\"}">>
    /\ status["sync"] = "exhausted" /\ status["async"] = "exhausted"
    /\ events["sync"] = <<DoneEvent(JStr("s1"))>>
    /\ events["async"] = <<StreamEvent("", Dict1("sessionId", JStr("s1")))>>

\* lines that miss 'event: ' or 'data: ' by the space, the case or a
\* leading space
NearMissLines ==
    {"event:done", "Event: done", "EVENT: done", "data:{}", "DATA: {}",
     " data: {}", " event: done"}

\* C13: field recognition is an exact, case-sensitive match on the literal
\* prefixes 'event: ' and 'data: ' including the single trailing space:
\* lines such as 'event:done', 'Event: done', 'data:{}', 'DATA: {}' or
\* ' data: {}' neither change current_event nor yield an event.
C13_ExactPrefixMatch ==
    [][\A d \in Decoders :
          (pos'[d] = pos[d] + 1 /\ response[d][pos'[d]] \in NearMissLines)
          => /\ events'[d] = events[d]
             /\ current_event'[d] = current_event[d]
             /\ status'[d] = "running"]_vars

\* all seven near-miss lines have been consumed after 'event: message', and
\* the data line after them has yielded a MessageEvent
C13_Witness ==
    /\ \A l \in NearMissLines : \E i \in 1..pos["sync"] : response["sync"][i] = l
    /\ status["sync"] = "exhausted"
    /\ current_event["sync"] = "message"
    /\ events["sync"] = <<MessageEvent(JObj(EmptyDict))>>

\* C20: the tag of every yielded event is the most recently seen event name:
\* current_event is always the trimmed remainder of the last 'event: ' line
\* consumed so far ("" before the first), a yielded event has the class of
\* that name, and an event line itself yields nothing (so of several event
\* lines in a row only the last tags the next data line).
C20_TagIsLastName ==
    /\ [](\A d \in Decoders : current_event[d] = NameAt(Consumed(d), pos[d] + 1))
    /\ [][\A d \in Decoders :
            /\ Len(events'[d]) > Len(events[d])
               => /\ events'[d][Len(events'[d])].type = RowVariant(current_event[d])
                  /\ current_event'[d] = current_event[d]
            /\ (pos'[d] = pos[d] + 1 /\ IsEventLine(response[d][pos'[d]]))
               => events'[d] = events[d]]_vars

\* two event lines in a row, then a data line: the event is a MessageEvent,
\* the class of the second name
C20_Witness ==
    /\ Consumed("sync") = <<"event: done", "event: message",
                            "data: {\"sessionId\":\"s1\"}">>
    /\ events["sync"] = <<MessageEvent(Dict1("sessionId", JStr("s1")))>>

\* n is s without the whitespace at its two ends: s is whitespace, n, and
\* whitespace, and n neither starts nor ends with whitespace
IsTrimmed(n, s) ==
    \E i \in 1..(Len(s) + 1) : \E j \in (i - 1)..Len(s) :
        /\ n = (IF j < i THEN "" ELSE SubSeq(s, i, j))
        /\ \A k \in 1..(i - 1) : Ch(s, k) \in Whitespace
        /\ \A k \in (j + 1)..Len(s) : Ch(s, k) \in Whitespace
        /\ j >= i => (Ch(s, i) \notin Whitespace /\ Ch(s, j) \notin Whitespace)

\* the line generator d consumes in a step that consumes one
LineTaken(d) == response[d][pos[d] + 1]

\* C21: the event name is the remainder of the 'event: ' line with leading
\* and trailing whitespace trimmed, while the payload is the remainder of the
\* 'data: ' line untrimmed, handed to the JSON parser as it is: the line
\* yields an event exactly of what json.loads makes of line[6:], and none
\* when json.loads rejects line[6:], also where it would accept the
\* trimmed text.
C21_NameTrimmedPayloadNot ==
    [][\A d \in Decoders :
          pos'[d] = pos[d] + 1
          => /\ IsEventLine(LineTaken(d))
                => IsTrimmed(current_event'[d], slice_from(LineTaken(d), 7))
             /\ IsDataLine(LineTaken(d))
                => LET data == json_loads(slice_from(LineTaken(d), 6))
                   IN  /\ ~data.ok => events'[d] = events[d]
                       /\ Len(events'[d]) > Len(events[d])
                          => events'[d] = Append(events[d],
                                 _parse_event(current_event[d], data.val).event)]_vars

\* 'event:   done  ' has selected the done variant, 'event: ' alone has set
\* the empty name, and of the payloads '\f{}' and '\t{} ' under it only the
\* second has yielded an event
C21_Witness ==
    /\ pos["sync"] = 6
    /\ Consumed("sync")[2] = "event:   done  "
    /\ Consumed("sync")[4] = "event: "
    /\ Consumed("sync")[5] = "data: \f{}"
    /\ json_loads(strip("\f{}")).ok
    /\ current_event["sync"] = ""
    /\ events["sync"] = << StreamEvent("", Dict1("a", JNum(1))),
                           DoneEvent(JStr("s1")),
                           StreamEvent("", JObj(EmptyDict)) >>

\* generator d has consumed no event line so far
NoEventLineYet(d) == \A i \in 1..pos[d] : ~IsEventLine(response[d][i])

\* C22: current_event starts as the empty string: a valid 'data: ' line
\* consumed before any 'event: ' line yields the fallback StreamEvent with
\* event '' and the parsed payload as its data (whatever JSON value it is),
\* not a MessageEvent and not a dropped frame.
C22_StartsEmpty ==
    /\ [](\A d \in Decoders : NoEventLineYet(d) => current_event[d] = "")
    /\ [][\A d \in Decoders :
            (/\ pos'[d] = pos[d] + 1
             /\ NoEventLineYet(d)
             /\ IsValidDataLine(LineTaken(d)))
            => /\ events'[d] = Append(events[d],
                     [type |-> "StreamEvent", event |-> "",
                      data |-> json_loads(slice_from(LineTaken(d), 6)).val])
               /\ status'[d] = "running"]_vars

\* a blank line, then two data lines before any event line: an object and an
\* array, each yielded as a StreamEvent with event ''
C22_Witness ==
    /\ Consumed("async") = <<"", "data: {\"sessionId\":\"s1\"}", "data: [1]">>
    /\ events["async"] = << StreamEvent("", Dict1("sessionId", JStr("s1"))),
                            StreamEvent("", JArr(<<JNum(1)>>)) >>
    /\ status["async"] = "running"

\* the event's fields are of the types its dataclass declares (str, bool,
\* int | None); the fields declared Any are of every type
FieldTypesOf(e) ==
    CASE e.type \in {"TextDeltaEvent", "ThinkingDeltaEvent"} -> e.delta.t = "str"
      [] e.type = "ToolUseEvent" -> e.id.t = "str" /\ e.name.t = "str"
      [] e.type = "ToolResultEvent" ->
           e.tool_use_id.t = "str" /\ e.is_error.t = "bool"
      [] e.type \in {"SessionStartEvent", "DoneEvent"} -> e.session_id.t = "str"
      [] e.type = "ErrorEvent" -> e.error.t = "str"
      [] e.type = "TurnCompleteEvent" -> e.num_turns.t \in {"num", "null"}
      [] OTHER -> TRUE

\* C23: every yielded event has the field types of the data model for every
\* JSON-object payload: TextDelta/ThinkingDelta delta is a string, ToolUse id
\* and name are strings, ToolResult tool_use_id is a string and is_error is a
\* boolean, SessionStart/Done session_id is a string, Error error is a
\* string, TurnComplete num_turns is an integer or absent.
C23_FieldTypes ==
    \A d \in Decoders :
        (FrameDecoded(d) /\ IsObject(GivenPayload))
        => \A i \in 1..Len(events[d]) : FieldTypesOf(events[d][i])

\* C24 as stated: the decoder's only cross-frame state is the pending
\* current event name, and that name is cleared or overwritten on every blank
\* line and on every new 'event: ' line, so after a blank line no earlier
\* event name remains pending.
C24_ClearedOnBlankLine ==
    \A d \in Decoders :
        (pos[d] >= 1 /\ response[d][pos[d]] = "") => current_event[d] = ""

\* what a step of generator d has added to its events
Yielded(d) == SubSeq(events'[d], Len(events[d]) + 1, Len(events'[d]))

\* C24, amended: the decoder's only cross-frame state is the pending current
\* event name (a line is decoded as by a fresh decoder that was given that
\* name in an event line just before it), and the name is overwritten by
\* every 'event: ' line and by nothing else: a blank line, like every other
\* line, leaves it as it is, so after a blank line the earlier event name is
\* still pending.
C24_OverwrittenOnlyByEventLine ==
    [][\A d \in Decoders :
          pos'[d] = pos[d] + 1
          => /\ LET alone == Replay(d, <<"event: " \o current_event[d], LineTaken(d)>>,
                                    1, Fresh)
                IN  /\ Yielded(d) = alone.events
                    /\ current_event'[d] = alone.current_event
                    /\ (status'[d] = "raised") = alone.raised
             /\ IsEventLine(LineTaken(d)) => current_event'[d] = NameOf(LineTaken(d))
             /\ ~IsEventLine(LineTaken(d)) => current_event'[d] = current_event[d]]_vars

\* a data line that follows a blank line and a comment line has been
\* decoded under text_delta, the name set before the blank line
C24_Witness ==
    /\ Consumed("sync") = << "event: text_delta", "data: {\"delta\":\"a\"}", "",
                             ": keep-alive", "data: {\"delta\":\"b\"}" >>
    /\ current_event["sync"] = "text_delta"
    /\ events["sync"] = <<TextDeltaEvent(JStr("a")), TextDeltaEvent(JStr("b"))>>

\* generator d has yielded a DoneEvent or an ErrorEvent
DoneOrErrorYielded(d) ==
    \E i \in 1..Len(events[d]) : events[d][i].type \in {"DoneEvent", "ErrorEvent"}

\* C25: decoding has no terminal state other than end of input: a generator
\* that has stopped has consumed all its lines, yielding a DoneEvent or an
\* ErrorEvent does not stop it, and every valid 'data: ' line that follows a
\* done or error frame still yields its event.
C25_NoTerminalEvent ==
    /\ [](\A d \in Decoders : status[d] # "running" => pos[d] = Len(response[d]))
    /\ [][\A d \in Decoders :
            (/\ DoneOrErrorYielded(d)
             /\ pos'[d] = pos[d] + 1
             /\ IsValidDataLine(LineTaken(d)))
            => /\ Len(events'[d]) = Len(events[d]) + 1
               /\ status'[d] = "running"]_vars

\* line i of generator d is a data line json.loads rejected, and d has
\* consumed no event line after it
FailedBefore(d, i) ==
    /\ IsDataLine(response[d][i]) /\ ~IsValidDataLine(response[d][i])
    /\ \A j \in (i + 1)..pos[d] : ~IsEventLine(response[d][j])

\* C26: a 'data: ' line whose JSON fails to parse leaves current_event
\* unchanged (and yields nothing): the next valid 'data: ' line with no
\* 'event: ' line in between is decoded under the event name that was in
\* force at the failed line.
C26_FailedLineKeepsName ==
    [][\A d \in Decoders :
          pos'[d] = pos[d] + 1
          => /\ (IsDataLine(LineTaken(d)) /\ ~IsValidDataLine(LineTaken(d)))
                => /\ current_event'[d] = current_event[d]
                   /\ events'[d] = events[d]
                   /\ status'[d] = "running"
             /\ IsValidDataLine(LineTaken(d))
                => \A i \in 1..pos[d] :
                     FailedBefore(d, i)
                     => LET r == _parse_event(NameAt(response[d], i),
                                     json_loads(slice_from(LineTaken(d), 6)).val)
                        IN  /\ (status'[d] = "raised") = r.raised
                            /\ ~r.raised => events'[d] = Append(events[d], r.event)]_vars

\* 'data: not-json' under the name done, then a valid data line: a DoneEvent
C26_Witness ==
    /\ Consumed("sync") = <<"event: done", "data: not-json",
                            "data: {\"sessionId\":\"s1\"}">>
    /\ current_event["sync"] = "done"
    /\ events["sync"] = <<DoneEvent(JStr("s1"))>>

\* ------------------------------------------------------------ the generated models

\* the UNSET sentinel of ash_sdk.types
UNSET == [t |-> "unset"]

\* what a call leaves: the value it returned, or the exception that left it
Ok(v) == [exc |-> "", val |-> v]
Raise(e) == [exc |-> e, val |-> None]

\* d.pop(key, default), d without some keys, and a.update(b), on the dicts
\* of the models (functions from keys to values); dict_without_leftovers
\* is a from_dict that throws the keys it does not know away
dict_pop(d, key, default) == IF key \in DOMAIN d THEN d[key] ELSE default
dict_without_leftovers(d, keys) == [k \in {} |-> None]
dict_without(d, keys) == [k \in (DOMAIN d) \ keys |-> d[k]]
dict_update(a, b) ==
    [k \in (DOMAIN a) \cup (DOMAIN b) |-> IF k \in DOMAIN b THEN b[k] ELSE a[k]]

\* s.replace(old, "")
RECURSIVE str_remove(_, _)
str_remove(s, old) ==
    IF Len(s) = 0 THEN ""
    ELSE IF startswith(s, old) THEN str_remove(slice_from(s, Len(old)), old)
    ELSE Ch(s, 1) \o str_remove(slice_from(s, 1), old)

\* s.strip("{}")
RECURSIVE strip_braces(_)
strip_braces(s) ==
    IF Len(s) = 0 THEN s
    ELSE IF Ch(s, 1) \in {"{", "}"} THEN strip_braces(slice_from(s, 1))
    ELSE IF Ch(s, Len(s)) \in {"{", "}"} THEN strip_braces(Sub(s, 1, Len(s) - 1))
    ELSE s

HexDigits ==
    {"0", "1", "2", "3", "4", "5", "6", "7", "8", "9",
     "a", "b", "c", "d", "e", "f", "A", "B", "C", "D", "E", "F"}

lower_hex(c) ==
    CASE c = "A" -> "a" [] c = "B" -> "b" [] c = "C" -> "c"
      [] c = "D" -> "d" [] c = "E" -> "e" [] c = "F" -> "f" [] OTHER -> c

RECURSIVE lower_all(_)
lower_all(s) ==
    IF Len(s) = 0 THEN "" ELSE lower_hex(Ch(s, 1)) \o lower_all(slice_from(s, 1))

\* uuid.UUID(hex): 'urn:', 'uuid:', braces and hyphens are dropped, and 32
\* hexadecimal digits must remain (int(hex, 16), taken as the digits alone);
\* the value is the 128-bit number, kept as its 32 lower-case digits.
\* None has no hex: TypeError; another non-string has no replace().
UUID(hex) ==
    IF hex.t = "null" THEN Raise("TypeError")
    ELSE IF hex.t # "str" THEN Raise("AttributeError")
    ELSE LET h == str_remove(strip_braces(str_remove(str_remove(hex.s, "urn:"), "uuid:")), "-")
         IN  IF Len(h) # 32 THEN Raise("ValueError")
             ELSE IF \E i \in 1..32 : Ch(h, i) \notin HexDigits THEN Raise("ValueError")
             ELSE Ok([t |-> "uuid", hex |-> lower_all(h)])

\* str(uuid): the digits in groups of 8-4-4-4-12
uuid_str(u) ==
    Sub(u.hex, 1, 8) \o "-" \o Sub(u.hex, 9, 12) \o "-" \o Sub(u.hex, 13, 16)
        \o "-" \o Sub(u.hex, 17, 20) \o "-" \o Sub(u.hex, 21, 32)

\* the two-digit number at s[i..i+1], or -1
two_digits(s, i) ==
    IF Ch(s, i) \in Digits /\ Ch(s, i + 1) \in Digits
    THEN 10 * DigitVal(Ch(s, i)) + DigitVal(Ch(s, i + 1))
    ELSE -1

\* dateutil's isoparse on the forms the API uses: YYYY-MM-DD, optionally
\* followed by THH:MM:SS, optionally followed by Z or +00:00 (both UTC); any
\* other text is a ValueError, a non-string a TypeError. The value is the
\* datetime: its date, its time (midnight when absent) and its offset.
isoparse(v) ==
    IF v.t # "str" THEN Raise("TypeError")
    ELSE LET s == v.s
             n == Len(s)
             date_ok == /\ n >= 10
                        /\ \A i \in {1, 2, 3, 4} : Ch(s, i) \in Digits
                        /\ Ch(s, 5) = "-" /\ Ch(s, 8) = "-"
                        /\ two_digits(s, 6) \in 1..12
                        /\ two_digits(s, 9) \in 1..31
             time_ok == /\ n >= 19
                        /\ Ch(s, 11) = "T"
                        /\ two_digits(s, 12) \in 0..23
                        /\ Ch(s, 14) = ":" /\ two_digits(s, 15) \in 0..59
                        /\ Ch(s, 17) = ":" /\ two_digits(s, 18) \in 0..59
             zone == slice_from(s, 19)
         IN  IF date_ok /\ n = 10 THEN
                 Ok([t |-> "datetime", date |-> s, time |-> "00:00:00", tz |-> ""])
             ELSE IF date_ok /\ time_ok /\ zone \in {"", "Z", "+00:00"} THEN
                 Ok([t |-> "datetime", date |-> Sub(s, 1, 10), time |-> Sub(s, 12, 19),
                     tz |-> IF zone = "" THEN "" ELSE "+00:00"])
             ELSE Raise("ValueError")

\* datetime.isoformat()
isoformat(dt) == dt.date \o "T" \o dt.time \o dt.tz

SESSION_STATUS_VALUES == {"active", "ended", "error", "paused", "starting", "stopped"}

\* check_session_status with every value taken for a member of the set
check_session_status_any(value) == Ok(value)

\* check_session_status: the value itself when it is one of the six, else
\* TypeError (an unhashable value, a list or a dict, is a TypeError of the
\* membership test)
check_session_status(value) ==
    IF value.t = "str" /\ value.s \in SESSION_STATUS_VALUES THEN Ok(value)
    ELSE Raise("TypeError")

\* the wire names Session.from_dict pops
SessionKeys ==
    {"id", "agentName", "sandboxId", "status", "createdAt", "lastActiveAt",
     "tenantId", "runnerId", "parentSessionId"}

\* _parse_runner_id of Session.from_dict
_parse_runner_id(data) == data

\* _parse_parent_session_id of Session.from_dict: None and UNSET as they
\* are, a string that is a UUID as the UUID, anything else as it is
_parse_parent_session_id(data) ==
    IF data = None \/ data = UNSET THEN data
    ELSE IF data.t = "str" /\ UUID(data).exc = "" THEN UUID(data).val
    ELSE data

\* Session.from_dict: the pops in the order of the source, each with the
\* exception it can raise, then the constructor and the leftover keys
Session_from_dict(src_dict) ==
    LET d == src_dict
        id == UUID(d["id"])
        checked == check_session_status(d["status"])
        created_at == isoparse(d["createdAt"])
        last_active_at == isoparse(d["lastActiveAt"])
    IN  IF "id" \notin DOMAIN d THEN Raise("KeyError")
        ELSE IF id.exc # "" THEN Raise(id.exc)
        ELSE IF "agentName" \notin DOMAIN d THEN Raise("KeyError")
        ELSE IF "sandboxId" \notin DOMAIN d THEN Raise("KeyError")
        ELSE IF "status" \notin DOMAIN d THEN Raise("KeyError")
        ELSE IF checked.exc # "" THEN Raise(checked.exc)
        ELSE IF "createdAt" \notin DOMAIN d THEN Raise("KeyError")
        ELSE IF created_at.exc # "" THEN Raise(created_at.exc)
        ELSE IF "lastActiveAt" \notin DOMAIN d THEN Raise("KeyError")
        ELSE IF last_active_at.exc # "" THEN Raise(last_active_at.exc)
        ELSE Ok([cls |-> "Session",
                 id |-> id.val,
                 agent_name |-> d["agentName"],
                 sandbox_id |-> d["sandboxId"],
                 status |-> checked.val,
                 created_at |-> created_at.val,
                 last_active_at |-> last_active_at.val,
                 tenant_id |-> dict_pop(d, "tenantId", UNSET),
                 runner_id |-> _parse_runner_id(dict_pop(d, "runnerId", UNSET)),
                 parent_session_id |->
                     _parse_parent_session_id(dict_pop(d, "parentSessionId", UNSET)),
                 additional_properties |-> dict_without(d, SessionKeys)])

\* the entries to_dict adds for optional fields: one per <<key, value>>
\* whose value is not UNSET
set_fields(pairs) ==
    LET on == {i \in 1..Len(pairs) : pairs[i][2] # UNSET}
    IN  [k \in {pairs[i][1] : i \in on} |->
            pairs[CHOOSE i \in on : pairs[i][1] = k][2]]

\* Session.to_dict: the additional properties, over them the six required
\* keys, over them the optional fields that are set
Session_to_dict(self) ==
    LET parent_session_id ==
            IF self.parent_session_id = UNSET THEN UNSET
            ELSE IF self.parent_session_id.t = "uuid"
                 THEN JStr(uuid_str(self.parent_session_id))
            ELSE self.parent_session_id
        required ==
            [k \in {"id", "agentName", "sandboxId", "status", "createdAt", "lastActiveAt"} |->
                CASE k = "id" -> JStr(uuid_str(self.id))
                  [] k = "agentName" -> self.agent_name
                  [] k = "sandboxId" -> self.sandbox_id
                  [] k = "status" -> self.status
                  [] k = "createdAt" -> JStr(isoformat(self.created_at))
                  [] k = "lastActiveAt" -> JStr(isoformat(self.last_active_at))]
    IN  dict_update(dict_update(self.additional_properties, required),
                    set_fields(<< <<"tenantId", self.tenant_id>>,
                                  <<"runnerId", self.runner_id>>,
                                  <<"parentSessionId", parent_session_id>> >>))

\* the wire names Agent.from_dict pops
AgentKeys == {"id", "name", "version", "path", "createdAt", "updatedAt", "tenantId"}

\* Agent.from_dict
Agent_from_dict(src_dict) ==
    LET d == src_dict
        id == UUID(d["id"])
        created_at == isoparse(d["createdAt"])
        updated_at == isoparse(d["updatedAt"])
    IN  IF "id" \notin DOMAIN d THEN Raise("KeyError")
        ELSE IF id.exc # "" THEN Raise(id.exc)
        ELSE IF "name" \notin DOMAIN d THEN Raise("KeyError")
        ELSE IF "version" \notin DOMAIN d THEN Raise("KeyError")
        ELSE IF "path" \notin DOMAIN d THEN Raise("KeyError")
        ELSE IF "createdAt" \notin DOMAIN d THEN Raise("KeyError")
        ELSE IF created_at.exc # "" THEN Raise(created_at.exc)
        ELSE IF "updatedAt" \notin DOMAIN d THEN Raise("KeyError")
        ELSE IF updated_at.exc # "" THEN Raise(updated_at.exc)
        ELSE Ok([cls |-> "Agent",
                 id |-> id.val,
                 name |-> d["name"],
                 version |-> d["version"],
                 path |-> d["path"],
                 created_at |-> created_at.val,
                 updated_at |-> updated_at.val,
                 tenant_id |-> dict_pop(d, "tenantId", UNSET),
                 additional_properties |-> dict_without(d, AgentKeys)])

\* Agent.to_dict updating field_dict with additional_properties last, after
\* the declared fields
Agent_to_dict_additional_last(self) ==
    LET required ==
            [k \in {"id", "name", "version", "path", "createdAt", "updatedAt"} |->
                CASE k = "id" -> JStr(uuid_str(self.id))
                  [] k = "name" -> self.name
                  [] k = "version" -> self.version
                  [] k = "path" -> self.path
                  [] k = "createdAt" -> JStr(isoformat(self.created_at))
                  [] k = "updatedAt" -> JStr(isoformat(self.updated_at))]
    IN  dict_update(dict_update(required,
                                set_fields(<< <<"tenantId", self.tenant_id>> >>)),
                    self.additional_properties)

\* Agent.to_dict
Agent_to_dict(self) ==
    LET required ==
            [k \in {"id", "name", "version", "path", "createdAt", "updatedAt"} |->
                CASE k = "id" -> JStr(uuid_str(self.id))
                  [] k = "name" -> self.name
                  [] k = "version" -> self.version
                  [] k = "path" -> self.path
                  [] k = "createdAt" -> JStr(isoformat(self.created_at))
                  [] k = "updatedAt" -> JStr(isoformat(self.updated_at))]
    IN  dict_update(dict_update(self.additional_properties, required),
                    set_fields(<< <<"tenantId", self.tenant_id>> >>))

\* a nested model that is a bag of properties (PostApiSessionsBodyExtraEnv,
\* PostApiSessionsBodyMcpServers, PostApiSessionsBodySubagents, ...)
Nested(cls, o) == [t |-> "model", cls |-> cls, additional_properties |-> o]

\* its from_dict: dict(src_dict) of a value that is no mapping is a TypeError
Nested_from_dict(cls, v) ==
    IF v.t = "obj" THEN Ok(Nested(cls, v.o)) ELSE Raise("TypeError")

\* its to_dict
Nested_to_dict(self) == JObj(self.additional_properties)

POST_API_SESSIONS_BODY_PERMISSION_MODE_VALUES ==
    {"bypassPermissions", "default", "permissionsByAgent"}

check_post_api_sessions_body_permission_mode(value) ==
    IF value.t = "str" /\ value.s \in POST_API_SESSIONS_BODY_PERMISSION_MODE_VALUES
    THEN Ok(value)
    ELSE Raise("TypeError")

\* the wire names PostApiSessionsBody.from_dict pops
PostApiSessionsBodyKeys ==
    {"agent", "credentialId", "extraEnv", "startupScript", "model", "mcpServers",
     "systemPrompt", "permissionMode", "allowedTools", "disallowedTools", "betas",
     "subagents", "initialAgent"}

\* PostApiSessionsBody.from_dict
PostApiSessionsBody_from_dict(src_dict) ==
    LET d == src_dict
        _extra_env == dict_pop(d, "extraEnv", UNSET)
        extra_env == IF _extra_env = UNSET THEN Ok(UNSET)
                     ELSE Nested_from_dict("PostApiSessionsBodyExtraEnv", _extra_env)
        _mcp_servers == dict_pop(d, "mcpServers", UNSET)
        mcp_servers == IF _mcp_servers = UNSET THEN Ok(UNSET)
                       ELSE Nested_from_dict("PostApiSessionsBodyMcpServers", _mcp_servers)
        _permission_mode == dict_pop(d, "permissionMode", UNSET)
        permission_mode ==
            IF _permission_mode = UNSET THEN Ok(UNSET)
            ELSE check_post_api_sessions_body_permission_mode(_permission_mode)
        _subagents == dict_pop(d, "subagents", UNSET)
        subagents == IF _subagents = UNSET THEN Ok(UNSET)
                     ELSE Nested_from_dict("PostApiSessionsBodySubagents", _subagents)
    IN  IF "agent" \notin DOMAIN d THEN Raise("KeyError")
        ELSE IF extra_env.exc # "" THEN Raise(extra_env.exc)
        ELSE IF mcp_servers.exc # "" THEN Raise(mcp_servers.exc)
        ELSE IF permission_mode.exc # "" THEN Raise(permission_mode.exc)
        ELSE IF subagents.exc # "" THEN Raise(subagents.exc)
        ELSE Ok([cls |-> "PostApiSessionsBody",
                 agent |-> d["agent"],
                 credential_id |-> dict_pop(d, "credentialId", UNSET),
                 extra_env |-> extra_env.val,
                 startup_script |-> dict_pop(d, "startupScript", UNSET),
                 model |-> dict_pop(d, "model", UNSET),
                 mcp_servers |-> mcp_servers.val,
                 system_prompt |-> dict_pop(d, "systemPrompt", UNSET),
                 permission_mode |-> permission_mode.val,
                 allowed_tools |-> dict_pop(d, "allowedTools", UNSET),
                 disallowed_tools |-> dict_pop(d, "disallowedTools", UNSET),
                 betas |-> dict_pop(d, "betas", UNSET),
                 subagents |-> subagents.val,
                 initial_agent |-> dict_pop(d, "initialAgent", UNSET),
                 additional_properties |-> dict_without(d, PostApiSessionsBodyKeys)])

\* a nested model's to_dict when the field is set
to_dict_if_set(v) == IF v = UNSET THEN UNSET ELSE Nested_to_dict(v)

\* the optional fields of PostApiSessionsBody.to_dict, each with its key
PostApiSessionsBody_optional(self) ==
    << <<"credentialId", self.credential_id>>,
       <<"extraEnv", to_dict_if_set(self.extra_env)>>,
       <<"startupScript", self.startup_script>>,
       <<"model", self.model>>,
       <<"mcpServers", to_dict_if_set(self.mcp_servers)>>,
       <<"systemPrompt", self.system_prompt>>,
       <<"permissionMode", self.permission_mode>>,
       <<"allowedTools", self.allowed_tools>>,
       <<"disallowedTools", self.disallowed_tools>>,
       <<"betas", self.betas>>,
       <<"subagents", to_dict_if_set(self.subagents)>>,
       <<"initialAgent", self.initial_agent>> >>

\* to_dict writing every optional field, set or not
PostApiSessionsBody_to_dict_all_keys(self) ==
    LET pairs == PostApiSessionsBody_optional(self)
    IN  dict_update(dict_update(self.additional_properties,
                                [k \in {"agent"} |-> self.agent]),
                    [k \in {pairs[i][1] : i \in 1..Len(pairs)} |->
                        pairs[CHOOSE i \in 1..Len(pairs) : pairs[i][1] = k][2]])

\* PostApiSessionsBody.to_dict
PostApiSessionsBody_to_dict(self) ==
    dict_update(dict_update(self.additional_properties,
                            [k \in {"agent"} |-> self.agent]),
                set_fields(PostApiSessionsBody_optional(self)))

\* the optional fields of PostApiSessionsIdMessagesBody.to_dict
PostApiSessionsIdMessagesBody_optional(self) ==
    << <<"includePartialMessages", self.include_partial_messages>>,
       <<"model", self.model>>,
       <<"maxTurns", self.max_turns>>,
       <<"maxBudgetUsd", self.max_budget_usd>>,
       <<"effort", self.effort>>,
       <<"thinking", to_dict_if_set(self.thinking)>>,
       <<"outputFormat", to_dict_if_set(self.output_format)>> >>

\* PostApiSessionsIdMessagesBody.to_dict
PostApiSessionsIdMessagesBody_to_dict(self) ==
    dict_update(dict_update(self.additional_properties,
                            [k \in {"content"} |-> self.content]),
                set_fields(PostApiSessionsIdMessagesBody_optional(self)))

\* the constructor of PostApiSessionsBody: agent, and UNSET for every
\* optional field that is not given; additional_properties starts empty
PostApiSessionsBody(kwargs) ==
    [cls |-> "PostApiSessionsBody",
     agent |-> kwargs["agent"],
     credential_id |-> dict_pop(kwargs, "credential_id", UNSET),
     extra_env |-> dict_pop(kwargs, "extra_env", UNSET),
     startup_script |-> dict_pop(kwargs, "startup_script", UNSET),
     model |-> dict_pop(kwargs, "model", UNSET),
     mcp_servers |-> dict_pop(kwargs, "mcp_servers", UNSET),
     system_prompt |-> dict_pop(kwargs, "system_prompt", UNSET),
     permission_mode |-> dict_pop(kwargs, "permission_mode", UNSET),
     allowed_tools |-> dict_pop(kwargs, "allowed_tools", UNSET),
     disallowed_tools |-> dict_pop(kwargs, "disallowed_tools", UNSET),
     betas |-> dict_pop(kwargs, "betas", UNSET),
     subagents |-> dict_pop(kwargs, "subagents", UNSET),
     initial_agent |-> dict_pop(kwargs, "initial_agent", UNSET),
     additional_properties |-> EmptyDict]

\* the constructor of PostApiSessionsIdMessagesBody
PostApiSessionsIdMessagesBody(kwargs) ==
    [cls |-> "PostApiSessionsIdMessagesBody",
     content |-> kwargs["content"],
     include_partial_messages |-> dict_pop(kwargs, "include_partial_messages", UNSET),
     model |-> dict_pop(kwargs, "model", UNSET),
     max_turns |-> dict_pop(kwargs, "max_turns", UNSET),
     max_budget_usd |-> dict_pop(kwargs, "max_budget_usd", UNSET),
     effort |-> dict_pop(kwargs, "effort", UNSET),
     thinking |-> dict_pop(kwargs, "thinking", UNSET),
     output_format |-> dict_pop(kwargs, "output_format", UNSET),
     additional_properties |-> EmptyDict]

\* model[key] and key in model
__getitem__(self, key) == self.additional_properties[key]
__contains__(self, key) == key \in DOMAIN self.additional_properties

\* ------------------------------------------------------------ the models' inputs

\* ids: the id of the tests, the same id in another accepted spelling, a
\* string that is no UUID, a number
IdInputs ==
    << JStr("550e8400-e29b-41d4-a716-446655440000"),
       JStr("{550E8400E29B41D4A716446655440000}"),
       JStr("not-a-uuid"),
       JNum(7) >>

\* statuses: the six of test_session_status_values, then values outside them
StatusInputs ==
    << JStr("starting"), JStr("active"), JStr("paused"), JStr("stopped"),
       JStr("ended"), JStr("error"),
       JStr("running"), JStr(""), JStr("Active"), JStr("ended "),
       JNum(1), None, JArr(<<JStr("active")>>) >>

DateInputs ==
    << JStr("2025-01-01T00:00:00Z"), JStr("2025-01-01"),
       JStr("2025-06-30T23:59:59+00:00"), JStr("yesterday") >>

\* further keys of a session dict: optional fields and unknown fields
SessionExtras ==
    << EmptyDict,
       Dict1("runnerId", JStr("runner-1")).o,
       Dict1("customField", JStr("custom_value")).o,
       Dict3("parentSessionId", JStr("650e8400-e29b-41d4-a716-446655440000"),
             "tenantId", JStr("t1"), "runnerId", None).o,
       Dict2("parentSessionId", JStr("root"), "x-trace", JNum(7)).o >>

\* required keys left out of a session dict
SessionDrops == {{}, {"status"}, {"createdAt"}}

SessionDict(id, st, date, extra, drop) ==
    LET full == [k \in {"id", "agentName", "sandboxId", "status", "createdAt",
                        "lastActiveAt"} \cup DOMAIN extra |->
                    CASE k = "id" -> id
                      [] k = "agentName" -> JStr("test")
                      [] k = "sandboxId" -> JStr("sb-1")
                      [] k = "status" -> st
                      [] k = "createdAt" -> date
                      [] k = "lastActiveAt" -> JStr("2025-01-01T00:00:00Z")
                      [] OTHER -> extra[k]]
    IN  [k \in (DOMAIN full) \ drop |-> full[k]]

AgentExtras ==
    << EmptyDict,
       Dict1("customField", JStr("custom_value")).o,
       Dict2("tenantId", JStr("t1"), "x-trace", JNum(7)).o >>

AgentDict(id, date, extra) ==
    dict_update(
        [k \in {"id", "name", "version", "path", "createdAt", "updatedAt"} |->
            CASE k = "id" -> id
              [] k = "name" -> JStr("test")
              [] k = "version" -> JNum(1)
              [] k = "path" -> JStr("/tmp/test")
              [] k = "createdAt" -> date
              [] k = "updatedAt" -> JStr("2025-01-01T00:00:00Z")],
        extra)

\* the value sent under each optional key of a session creation body
BodyWireValue(key) ==
    CASE key = "credentialId" -> JStr("cred-1")
      [] key = "extraEnv" -> Dict1("KEY", JStr("v"))
      [] key = "startupScript" -> JStr("echo hi")
      [] key = "model" -> JStr("claude-sonnet-4-20250514")
      [] key = "mcpServers" -> JObj(EmptyDict)
      [] key = "systemPrompt" -> JStr("Be concise.")
      [] key = "permissionMode" -> JStr("bypassPermissions")
      [] key = "allowedTools" -> JArr(<<JStr("Read")>>)
      [] key = "disallowedTools" -> JArr(<<JStr("Bash")>>)
      [] key = "betas" -> JArr(<<JStr("interleaved-thinking")>>)
      [] key = "subagents" -> JObj(EmptyDict)
      [] key = "initialAgent" -> JStr("main")

\* how a body dict departs from the plain one: not at all, a permission
\* mode outside the three, an extraEnv that is no mapping, unknown keys
BodyVariants == {"plain", "bad_mode", "bad_env", "extra"}

BodyDict(keys, variant) ==
    LET plain == [k \in {"agent"} \cup keys |->
                     IF k = "agent" THEN JStr("my-bot") ELSE BodyWireValue(k)]
    IN  CASE variant = "plain" -> plain
          [] variant = "bad_mode" -> dict_set(plain, "permissionMode", JStr("yolo"))
          [] variant = "bad_env" -> dict_set(plain, "extraEnv", JNum(1))
          [] variant = "extra" ->
                dict_update(plain, Dict2("customField", JStr("custom_value"),
                                         "agent_name", JStr("shadow")).o)

\* the optional attributes of the two request bodies
BodyAttrs ==
    {"credential_id", "extra_env", "startup_script", "model", "mcp_servers",
     "system_prompt", "permission_mode", "allowed_tools", "disallowed_tools",
     "betas", "subagents", "initial_agent"}

MessageAttrs ==
    {"include_partial_messages", "model", "max_turns", "max_budget_usd",
     "effort", "thinking", "output_format"}

\* the value a caller gives each attribute (those of the tests)
AttrValue(attr) ==
    CASE attr = "credential_id" -> JStr("cred-1")
      [] attr = "extra_env" ->
            Nested("PostApiSessionsBodyExtraEnv", Dict1("KEY", JStr("v")).o)
      [] attr = "startup_script" -> JStr("echo hi")
      [] attr = "model" -> JStr("claude-sonnet-4-20250514")
      [] attr = "mcp_servers" -> Nested("PostApiSessionsBodyMcpServers", EmptyDict)
      [] attr = "system_prompt" -> JStr("You are helpful.")
      [] attr = "permission_mode" -> JStr("bypassPermissions")
      [] attr = "allowed_tools" -> JArr(<<JStr("Read"), JStr("Write")>>)
      [] attr = "disallowed_tools" -> JArr(<<JStr("Bash")>>)
      [] attr = "betas" -> JArr(<<JStr("interleaved-thinking")>>)
      [] attr = "subagents" -> Nested("PostApiSessionsBodySubagents", EmptyDict)
      [] attr = "initial_agent" -> JStr("main")
      [] attr = "include_partial_messages" -> JBool(TRUE)
      [] attr = "max_turns" -> JNum(5)
      [] attr = "max_budget_usd" -> JNum(1)
      [] attr = "effort" -> JStr("high")
      [] attr = "thinking" ->
            Nested("PostApiSessionsIdMessagesBodyThinking",
                   Dict1("type", JStr("enabled")).o)
      [] attr = "output_format" ->
            Nested("PostApiSessionsIdMessagesBodyOutputFormat",
                   Dict1("type", JStr("json")).o)

\* keyword arguments: the required one, the chosen optional ones, and model
\* given as None when model_none
Kwargs(required, value, attrs, model_none) ==
    [a \in {required} \cup attrs |->
        IF a = required THEN value
        ELSE IF a = "model" /\ model_none THEN None
        ELSE AttrValue(a)]

InitModels ==
    /\ \/ \E i \in 1..Len(IdInputs), j \in 1..Len(StatusInputs),
            k \in 1..Len(DateInputs), e \in 1..Len(SessionExtras),
            drop \in SessionDrops :
              src = [kind |-> "dict", cls |-> "Session",
                     d |-> SessionDict(IdInputs[i], StatusInputs[j], DateInputs[k],
                                       SessionExtras[e], drop)]
       \/ \E i \in 1..Len(IdInputs), k \in 1..Len(DateInputs),
            e \in 1..Len(AgentExtras) :
              src = [kind |-> "dict", cls |-> "Agent",
                     d |-> AgentDict(IdInputs[i], DateInputs[k], AgentExtras[e])]
       \/ \E keys \in SUBSET (PostApiSessionsBodyKeys \ {"agent"}),
            variant \in BodyVariants :
              src = [kind |-> "dict", cls |-> "PostApiSessionsBody",
                     d |-> BodyDict(keys, variant)]
       \/ \E attrs \in SUBSET BodyAttrs, model_none \in BOOLEAN :
              /\ model_none => "model" \in attrs
              /\ src = [kind |-> "kwargs", cls |-> "PostApiSessionsBody",
                        d |-> Kwargs("agent", JStr("my-bot"), attrs, model_none)]
       \/ \E attrs \in SUBSET MessageAttrs, model_none \in BOOLEAN :
              /\ model_none => "model" \in attrs
              /\ src = [kind |-> "kwargs", cls |-> "PostApiSessionsIdMessagesBody",
                        d |-> Kwargs("content", JStr("Hello"), attrs, model_none)]
    /\ obj = NotCalled
    /\ out = NotCalled
    /\ NoStreams /\ NoClient /\ NoEndpoint /\ NoCall

\* cls.from_dict(src_dict) of the class the input names
from_dict ==
    /\ src.kind = "dict"
    /\ obj.exc = "none"
    /\ obj' = CASE src.cls = "Session" -> Session_from_dict(src.d)
                [] src.cls = "Agent" -> Agent_from_dict(src.d)
                [] src.cls = "PostApiSessionsBody" -> PostApiSessionsBody_from_dict(src.d)
    /\ UNCHANGED <<src, out, sse_vars, client_vars, endpoint_vars, stream_vars>>

\* cls(**kwargs) of a request body
construct ==
    /\ src.kind = "kwargs"
    /\ obj.exc = "none"
    /\ obj' = Ok(CASE src.cls = "PostApiSessionsBody" -> PostApiSessionsBody(src.d)
                   [] src.cls = "PostApiSessionsIdMessagesBody" ->
                         PostApiSessionsIdMessagesBody(src.d))
    /\ UNCHANGED <<src, out, sse_vars, client_vars, endpoint_vars, stream_vars>>

\* instance.to_dict()
to_dict ==
    /\ obj.exc = ""
    /\ out.exc = "none"
    /\ out' = Ok(CASE obj.val.cls = "Session" -> Session_to_dict(obj.val)
                   [] obj.val.cls = "Agent" -> Agent_to_dict(obj.val)
                   [] obj.val.cls = "PostApiSessionsBody" ->
                         PostApiSessionsBody_to_dict(obj.val)
                   [] obj.val.cls = "PostApiSessionsIdMessagesBody" ->
                         PostApiSessionsIdMessagesBody_to_dict(obj.val))
    /\ UNCHANGED <<src, obj, sse_vars, client_vars, endpoint_vars, stream_vars>>

NextModels == from_dict \/ construct \/ to_dict

SpecModels == InitModels /\ [][NextModels]_vars

\* the keys a caller assigns with model[key] = value: wire names of required
\* fields, of optional fields, and a key no model declares
AssignKeys == {"name", "agent", "agentName", "tenantId", "model", "customField"}

\* the values assigned
AssignValues == << JStr("shadow"), None >>

\* the instances the assignments are made on
InitAssign ==
    /\ \/ \E i \in 1..Len(IdInputs), k \in 1..Len(DateInputs),
            e \in 1..Len(AgentExtras) :
              src = [kind |-> "dict", cls |-> "Agent",
                     d |-> AgentDict(IdInputs[i], DateInputs[k], AgentExtras[e])]
       \/ \E j \in {1, 7}, e \in 1..Len(SessionExtras) :
              src = [kind |-> "dict", cls |-> "Session",
                     d |-> SessionDict(IdInputs[1], StatusInputs[j], DateInputs[1],
                                       SessionExtras[e], {})]
       \/ \E keys \in SUBSET {"model"}, variant \in {"plain", "extra"} :
              src = [kind |-> "dict", cls |-> "PostApiSessionsBody",
                     d |-> BodyDict(keys, variant)]
       \/ \E attrs \in SUBSET {"model", "extra_env"}, model_none \in BOOLEAN :
              /\ model_none => "model" \in attrs
              /\ src = [kind |-> "kwargs", cls |-> "PostApiSessionsBody",
                        d |-> Kwargs("agent", JStr("my-bot"), attrs, model_none)]
       \/ \E attrs \in SUBSET {"model"}, model_none \in BOOLEAN :
              /\ model_none => "model" \in attrs
              /\ src = [kind |-> "kwargs", cls |-> "PostApiSessionsIdMessagesBody",
                        d |-> Kwargs("content", JStr("Hello"), attrs, model_none)]
    /\ obj = NotCalled
    /\ out = NotCalled
    /\ NoStreams /\ NoClient /\ NoEndpoint /\ NoCall

\* instance[key] = value: self.additional_properties[key] = value
__setitem__ ==
    /\ obj.exc = ""
    /\ out.exc = "none"
    /\ \E key \in AssignKeys, v \in 1..Len(AssignValues) :
         obj' = [obj EXCEPT !.val.additional_properties =
                                dict_set(@, key, AssignValues[v])]
    /\ UNCHANGED <<src, out, sse_vars, client_vars, endpoint_vars, stream_vars>>

NextAssign == from_dict \/ construct \/ __setitem__ \/ to_dict

\* instances that are assigned to between their construction and to_dict
SpecAssign == InitAssign /\ [][NextAssign]_vars

\* ------------------------------------------------------------ the models' claims

SixStatuses == {"starting", "active", "paused", "stopped", "ended", "error"}

\* the input is a session dict whose status from_dict gets to check: the
\* keys popped before it are there and the id is a UUID
StatusReached ==
    /\ src.kind = "dict" /\ src.cls = "Session"
    /\ {"id", "agentName", "sandboxId", "status"} \subseteq DOMAIN src.d
    /\ UUID(src.d["id"]).exc = ""

StatusOneOfSix ==
    /\ "status" \in DOMAIN src.d
    /\ src.d["status"].t = "str"
    /\ src.d["status"].s \in SixStatuses

DatesWellFormed ==
    /\ {"createdAt", "lastActiveAt"} \subseteq DOMAIN src.d
    /\ isoparse(src.d["createdAt"]).exc = ""
    /\ isoparse(src.d["lastActiveAt"]).exc = ""

\* C19: Session.from_dict accepts exactly the six statuses starting, active,
\* paused, stopped, ended and error and keeps the value unchanged in
\* session.status: a Session is returned only for one of the six, and is
\* returned for each of them when the rest of the dict is well-formed; any
\* other status value that reaches the check raises TypeError and no Session
\* is constructed.
C19_ExactlySixStatuses ==
    (src.kind = "dict" /\ src.cls = "Session" /\ obj.exc # "none")
    => /\ obj.exc = "" => (StatusOneOfSix /\ obj.val.status = src.d["status"])
       /\ (StatusReached /\ ~StatusOneOfSix)
          => (obj.exc = "TypeError" /\ obj.val = None)
       /\ (StatusReached /\ StatusOneOfSix /\ DatesWellFormed) => obj.exc = ""

\* the dict of the tests with the status 'running': TypeError, no Session
C19_Witness ==
    /\ src.cls = "Session"
    /\ src.d = SessionDict(IdInputs[1], JStr("running"), DateInputs[1], EmptyDict, {})
    /\ obj.exc = "TypeError"
    /\ obj.val = None

\* the keys each class declares, and those of them it requires
DeclaredKeys(cls) ==
    CASE cls = "Session" ->
            {"id", "agentName", "sandboxId", "status", "createdAt", "lastActiveAt",
             "tenantId", "runnerId", "parentSessionId"}
      [] cls = "Agent" ->
            {"id", "name", "version", "path", "createdAt", "updatedAt", "tenantId"}
      [] cls = "PostApiSessionsBody" ->
            {"agent", "credentialId", "extraEnv", "startupScript", "model",
             "mcpServers", "systemPrompt", "permissionMode", "allowedTools",
             "disallowedTools", "betas", "subagents", "initialAgent"}

RequiredKeys(cls) ==
    CASE cls = "Session" ->
            {"id", "agentName", "sandboxId", "status", "createdAt", "lastActiveAt"}
      [] cls = "Agent" -> {"id", "name", "version", "path", "createdAt", "updatedAt"}
      [] cls = "PostApiSessionsBody" -> {"agent"}

WireName(attr) ==
    CASE attr = "credential_id" -> "credentialId"
      [] attr = "extra_env" -> "extraEnv"
      [] attr = "startup_script" -> "startupScript"
      [] attr = "model" -> "model"
      [] attr = "mcp_servers" -> "mcpServers"
      [] attr = "system_prompt" -> "systemPrompt"
      [] attr = "permission_mode" -> "permissionMode"
      [] attr = "allowed_tools" -> "allowedTools"
      [] attr = "disallowed_tools" -> "disallowedTools"
      [] attr = "betas" -> "betas"
      [] attr = "subagents" -> "subagents"
      [] attr = "initial_agent" -> "initialAgent"
      [] attr = "include_partial_messages" -> "includePartialMessages"
      [] attr = "max_turns" -> "maxTurns"
      [] attr = "max_budget_usd" -> "maxBudgetUsd"
      [] attr = "effort" -> "effort"
      [] attr = "thinking" -> "thinking"
      [] attr = "output_format" -> "outputFormat"

\* the value on the wire: a nested model as its dict, anything else as it is
OnWire(v) == IF v.t = "model" THEN JObj(v.additional_properties) ELSE v

\* C17: request-body models serialise exactly what was set: to_dict of a
\* constructed PostApiSessionsBody / PostApiSessionsIdMessagesBody has the
\* required key ('agent' / 'content'), one camelCase key for each optional
\* field that was given a value (None included), and no other key; a body
\* built with only agent='my-bot' serialises to exactly {'agent': 'my-bot'}.
C17_SerialisesWhatWasSet ==
    (src.kind = "kwargs" /\ out.exc = "")
    => LET required == IF src.cls = "PostApiSessionsBody" THEN "agent" ELSE "content"
           attrs == (DOMAIN src.d) \ {required}
       IN  /\ DOMAIN out.val = {required} \cup {WireName(a) : a \in attrs}
           /\ out.val[required] = src.d[required]
           /\ \A a \in attrs : out.val[WireName(a)] = OnWire(src.d[a])

\* PostApiSessionsBody(agent='my-bot').to_dict() == {'agent': 'my-bot'}
C17_Witness ==
    /\ src.kind = "kwargs"
    /\ src.cls = "PostApiSessionsBody"
    /\ DOMAIN src.d = {"agent"}
    /\ out.exc = ""
    /\ out.val = [k \in {"agent"} |-> JStr("my-bot")]

\* the wire names of the required fields of the request body of a message
RequiredOf(cls) ==
    IF cls = "PostApiSessionsIdMessagesBody" THEN {"content"} ELSE RequiredKeys(cls)

\* to_dict of the class of the instance
ToDictOf(self) ==
    CASE self.cls = "Session" -> Session_to_dict(self)
      [] self.cls = "Agent" -> Agent_to_dict(self)
      [] self.cls = "PostApiSessionsBody" -> PostApiSessionsBody_to_dict(self)
      [] self.cls = "PostApiSessionsIdMessagesBody" ->
            PostApiSessionsIdMessagesBody_to_dict(self)

\* what the declared attributes of the instance serialise to: to_dict of the
\* instance without its additional properties
DeclaredOnWire(self) == ToDictOf([self EXCEPT !.additional_properties = EmptyDict])

\* C30: in every generated model's to_dict declared fields win over
\* additional properties: after any sequence of model[key] = value
\* assignments, including ones whose key is a declared field's wire name,
\* to_dict has every key of a declared field that is set with the declared
\* attribute's value, every required key among them, and an additional
\* property's value only under the other keys, none of them a required key.
C30_DeclaredFieldsWin ==
    (obj.exc = "" /\ out.exc = "")
    => LET declared == DeclaredOnWire(obj.val)
           additional == obj.val.additional_properties
       IN  /\ RequiredOf(obj.val.cls) \subseteq DOMAIN declared
           /\ DOMAIN out.val = (DOMAIN declared) \cup (DOMAIN additional)
           /\ \A k \in DOMAIN out.val :
                IF k \in DOMAIN declared
                THEN out.val[k] = declared[k]
                ELSE out.val[k] = additional[k] /\ k \notin RequiredOf(obj.val.cls)

\* an Agent that was assigned agent['name'] = 'shadow' and then
\* agent['customField'] = None: to_dict has the declared name, 'test', and
\* the additional property under customField
C30_Witness ==
    /\ src.cls = "Agent"
    /\ obj.exc = ""
    /\ __contains__(obj.val, "name") /\ __contains__(obj.val, "customField")
    /\ __getitem__(obj.val, "name") = JStr("shadow")
    /\ __getitem__(obj.val, "customField") = None
    /\ out.exc = ""
    /\ out.val["name"] = JStr("test")
    /\ out.val["customField"] = None

\* ------------------------------------------------------------ the AshClient

\* the truth value of an optional string: None and "" are false
truthy(v) == v.t = "str" /\ v.s # ""

\* str.rstrip("/")
RECURSIVE rstrip_slash(_)
rstrip_slash(s) ==
    IF Len(s) > 0 /\ Ch(s, Len(s)) = "/" THEN rstrip_slash(Sub(s, 1, Len(s) - 1)) ELSE s

\* AshClient.__init__
AshClient(base_url, token) == [base_url |-> rstrip_slash(base_url), token |-> token]

\* _headers with 'if self.token is not None'
_headers_token_not_none(self, content_type, streaming) ==
    LET h1 == IF truthy(content_type)
              THEN dict_set(EmptyDict, "Content-Type", content_type.s) ELSE EmptyDict
        h2 == IF streaming THEN dict_set(h1, "Accept", "text/event-stream") ELSE h1
    IN  IF self.token # None
        THEN dict_set(h2, "Authorization", "Bearer " \o self.token.s) ELSE h2

\* AshClient._headers
_headers(self, content_type, streaming) ==
    LET h1 == IF truthy(content_type)
              THEN dict_set(EmptyDict, "Content-Type", content_type.s) ELSE EmptyDict
        h2 == IF streaming THEN dict_set(h1, "Accept", "text/event-stream") ELSE h1
    IN  IF truthy(self.token)
        THEN dict_set(h2, "Authorization", "Bearer " \o self.token.s) ELSE h2

\* the default of _headers' content_type
DefaultContentType == JStr("application/json")

\* what the server (or the transport) makes of a request: a transport
\* error, or a response with a status code and a body
Reply(error, status_code, text) ==
    [error |-> error, status_code |-> status_code, text |-> text]

\* httpx's is_success, which raise_for_status tests
is_success(status_code) == status_code \in 200..299

\* c.<method>(...); r.raise_for_status(); return r.json()
send(reply) ==
    IF reply.error # "" THEN Raise(reply.error)
    ELSE IF ~is_success(reply.status_code) THEN Raise("HTTPStatusError")
    ELSE LET data == json_loads(reply.text)
         IN  IF data.ok THEN Ok(data.val) ELSE Raise("JSONDecodeError")

\* AshClient._post: the request it issues, and what it returns or raises
_post(self, path, reply) ==
    [request |-> [method |-> "POST", url |-> self.base_url \o path,
                  headers |-> _headers(self, DefaultContentType, FALSE)],
     result |-> send(reply)]

\* AshClient._delete
_delete(self, path, reply) ==
    [request |-> [method |-> "DELETE", url |-> self.base_url \o path,
                  headers |-> _headers(self, None, FALSE)],
     result |-> send(reply)]

\* dict(src_dict): a mapping as it is; None, a number or a boolean is not
\* iterable; an empty list or string has no pairs; another has no pairs of two
dict_of(v) ==
    IF v.t = "obj" THEN Ok(v.o)
    ELSE IF v.t \in {"null", "num", "bool"} THEN Raise("TypeError")
    ELSE IF (v.t = "str" /\ v.s = "") \/ (v.t = "arr" /\ v.a = <<>>) THEN Ok(EmptyDict)
    ELSE Raise("ValueError")

\* Session.from_dict(data["session"])
session_of(data) ==
    IF data.t # "obj" THEN Raise("TypeError")
    ELSE IF "session" \notin DOMAIN data.o THEN Raise("KeyError")
    ELSE LET d == dict_of(data.o["session"])
         IN  IF d.exc # "" THEN Raise(d.exc) ELSE Session_from_dict(d.val)

\* the tokens a client is built with: none, the empty string, two keys
Tokens == << None, JStr(""), JStr("my-key"), JStr("ash_k2") >>

BaseUrls == {"http://localhost:4100", "http://localhost:4100/"}

\* the content_type arguments _headers is called with
ContentTypes ==
    << None, JStr(""), JStr("application/json"), JStr("multipart/form-data") >>

SessionIds == {"s1", "550e8400-e29b-41d4-a716-446655440000"}

\* the body of a session response, with the status the server reports
SessionText(st) ==
    dumps(Dict1("session",
                JObj(SessionDict(IdInputs[1], JStr(st), DateInputs[1],
                                 EmptyDict, {}))), "")

\* response bodies: a stopped session, an ended one, one with a status
\* outside the six, an object without 'session', a null session, no body
ReplyTexts ==
    {SessionText("stopped"), SessionText("ended"), SessionText("running"),
     "{\"error\":\"Session not found\",\"statusCode\":404}",
     "{\"session\":null}", ""}

StatusCodes == {200, 404, 500}

\* every reply to a request: a transport error or timeout, or a response
Replies ==
    {Reply(e, 0, "") : e \in {"ConnectError", "ReadTimeout"}}
        \cup {Reply("", c, t) : c \in StatusCodes, t \in ReplyTexts}

InitClient ==
    /\ \E base_url \in BaseUrls, t \in 1..Len(Tokens) :
           client = AshClient(base_url, Tokens[t])
    /\ headers = [content_type |-> None, streaming |-> FALSE, result |-> NotCalled]
    /\ requests = <<>>
    /\ ended = [result |-> NotCalled, session_id |-> "",
                stop |-> Reply("", 0, ""), delete |-> Reply("", 0, "")]
    /\ NoStreams /\ NoModels /\ NoEndpoint /\ NoCall

\* a call of client._headers(content_type=..., streaming=...)
call_headers ==
    /\ \E c \in 1..Len(ContentTypes), streaming \in BOOLEAN :
           headers' = [content_type |-> ContentTypes[c], streaming |-> streaming,
                       result |-> Ok(_headers(client, ContentTypes[c], streaming))]
    /\ UNCHANGED <<client, requests, ended, sse_vars, model_vars, endpoint_vars,
                   stream_vars>>

\* end_session without the try around the stop request
end_session_no_except ==
    /\ ended.result.exc = "none"
    /\ \E session_id \in SessionIds, stop_reply \in Replies, delete_reply \in Replies :
         LET stop == _post(client, "/api/sessions/" \o session_id \o "/stop", stop_reply)
             goes_on == stop.result.exc = ""
             del == _delete(client, "/api/sessions/" \o session_id, delete_reply)
             result == IF ~goes_on THEN Raise(stop.result.exc)
                       ELSE IF del.result.exc # "" THEN Raise(del.result.exc)
                       ELSE session_of(del.result.val)
         IN  /\ requests' = requests \o <<stop.request>>
                                \o (IF goes_on THEN <<del.request>> ELSE <<>>)
             /\ ended' = [result |-> result, session_id |-> session_id,
                          stop |-> stop_reply,
                          delete |-> IF goes_on THEN delete_reply ELSE Reply("", 0, "")]
    /\ UNCHANGED <<client, headers, sse_vars, model_vars, endpoint_vars, stream_vars>>

\* end_session passing over every exception of the stop request:
\* except Exception: pass
end_session_except_all ==
    /\ ended.result.exc = "none"
    /\ \E session_id \in SessionIds, stop_reply \in Replies, delete_reply \in Replies :
         LET stop == _post(client, "/api/sessions/" \o session_id \o "/stop", stop_reply)
             del == _delete(client, "/api/sessions/" \o session_id, delete_reply)
             result == IF del.result.exc # "" THEN Raise(del.result.exc)
                       ELSE session_of(del.result.val)
         IN  /\ requests' = requests \o <<stop.request>> \o <<del.request>>
             /\ ended' = [result |-> result, session_id |-> session_id,
                          stop |-> stop_reply, delete |-> delete_reply]
    /\ UNCHANGED <<client, headers, sse_vars, model_vars, endpoint_vars, stream_vars>>

\* AshClient.end_session(session_id): the stop request, whose
\* httpx.HTTPStatusError is passed over while any other exception leaves the
\* method; then the delete request, and the Session of its response
end_session ==
    /\ ended.result.exc = "none"
    /\ \E session_id \in SessionIds, stop_reply \in Replies, delete_reply \in Replies :
         LET stop == _post(client, "/api/sessions/" \o session_id \o "/stop", stop_reply)
             goes_on == stop.result.exc \in {"", "HTTPStatusError"}
             del == _delete(client, "/api/sessions/" \o session_id, delete_reply)
             result == IF ~goes_on THEN Raise(stop.result.exc)
                       ELSE IF del.result.exc # "" THEN Raise(del.result.exc)
                       ELSE session_of(del.result.val)
         IN  /\ requests' = requests \o <<stop.request>>
                                \o (IF goes_on THEN <<del.request>> ELSE <<>>)
             /\ ended' = [result |-> result, session_id |-> session_id,
                          stop |-> stop_reply,
                          delete |-> IF goes_on THEN delete_reply ELSE Reply("", 0, "")]
    /\ UNCHANGED <<client, headers, sse_vars, model_vars, endpoint_vars, stream_vars>>

NextClient == call_headers \/ end_session

SpecClient == InitClient /\ [][NextClient]_vars

\* ------------------------------------------------------------ the client's claims

\* a token was given and is not the empty string
TokenGiven == client.token # None /\ client.token.s # ""

\* the three conditions on one headers dict
HeadersAsConditions(h, content_type, streaming) ==
    /\ ("Authorization" \in DOMAIN h) <=> TokenGiven
    /\ TokenGiven => h["Authorization"] = "Bearer " \o client.token.s
    /\ ("Accept" \in DOMAIN h) <=> streaming
    /\ streaming => h["Accept"] = "text/event-stream"
    /\ ("Content-Type" \in DOMAIN h) <=> (content_type # None /\ content_type.s # "")
    /\ "Content-Type" \in DOMAIN h => h["Content-Type"] = content_type.s
    /\ DOMAIN h \subseteq {"Authorization", "Accept", "Content-Type"}

\* C15: _headers builds headers from three independent conditions:
\* Authorization = 'Bearer <token>' is present iff a non-empty token was
\* given; Accept = 'text/event-stream' iff streaming is true; Content-Type
\* iff content_type is non-empty; no other header is ever set. The default
\* content_type is 'application/json': it is what a request made without
\* naming one (the POST of _post) carries.
C15_HeadersFromThreeConditions ==
    /\ headers.result.exc = ""
       => HeadersAsConditions(headers.result.val, headers.content_type,
                              headers.streaming)
    /\ \A i \in 1..Len(requests) :
          IF requests[i].method = "POST"
          THEN HeadersAsConditions(requests[i].headers, JStr("application/json"), FALSE)
          ELSE HeadersAsConditions(requests[i].headers, None, FALSE)

\* the call of test_ash_client_headers with streaming=True: all three headers
C15_Witness ==
    /\ client.token = JStr("my-key")
    /\ headers.streaming
    /\ headers.result.exc = ""
    /\ headers.result.val =
           [k \in {"Authorization", "Accept", "Content-Type"} |->
               CASE k = "Authorization" -> "Bearer my-key"
                 [] k = "Accept" -> "text/event-stream"
                 [] k = "Content-Type" -> "application/json"]

\* the stop request failed with an HTTP status error
StopStatusError == ended.stop.error = "" /\ ended.stop.status_code \notin 200..299

\* the status the DELETE response reports for the session
DeletedStatus ==
    CASE ended.delete.text = SessionText("stopped") -> JStr("stopped")
      [] ended.delete.text = SessionText("ended") -> JStr("ended")
      [] OTHER -> None

\* C14: end_session stops first, then deletes: the first request is POST
\* /api/sessions/{id}/stop and a DELETE /api/sessions/{id} is only ever the
\* second; when the stop request fails with an HTTP status error the DELETE
\* is still issued and what leaves end_session is what the DELETE leads to;
\* a returned Session is built from the DELETE response.
C14_StopThenDelete ==
    ended.result.exc # "none"
    => LET stop_url == client.base_url \o "/api/sessions/" \o ended.session_id \o "/stop"
           delete_url == client.base_url \o "/api/sessions/" \o ended.session_id
       IN  /\ Len(requests) \in {1, 2}
           /\ requests[1].method = "POST" /\ requests[1].url = stop_url
           /\ Len(requests) = 2
              => (requests[2].method = "DELETE" /\ requests[2].url = delete_url)
           /\ StopStatusError
              => /\ Len(requests) = 2
                 /\ ended.result.exc = ""
                    <=> (ended.delete.error = "" /\ ended.delete.status_code \in 200..299
                         /\ DeletedStatus # None)
           /\ ended.result.exc = ""
              => /\ Len(requests) = 2
                 /\ ended.delete.error = "" /\ ended.delete.status_code \in 200..299
                 /\ ended.result.val.status = DeletedStatus
                 /\ uuid_str(ended.result.val.id) = IdInputs[1].s

\* the stop request answered 404, the DELETE answered 200: the Session of
\* the DELETE response is returned
C14_Witness ==
    /\ ended.stop = Reply("", 404, "{\"error\":\"Session not found\",\"statusCode\":404}")
    /\ ended.delete = Reply("", 200, SessionText("ended"))
    /\ Len(requests) = 2
    /\ requests[2].method = "DELETE"
    /\ ended.result.exc = ""
    /\ ended.result.val.status = JStr("ended")


\* the stop request failed in the transport: no response came
StopTransportError == ended.stop.error \in {"ConnectError", "ReadTimeout"}

\* C28: end_session swallows only an HTTP status error from the stop
\* request: a transport error or timeout raised by the stop request leaves
\* end_session as it is and the DELETE is never issued, and an HTTP status
\* error from the DELETE itself always propagates (no Session is returned).
C28_SwallowsOnlyStatusError ==
    ended.result.exc # "none"
    => /\ StopTransportError
          => /\ ended.result = Raise(ended.stop.error)
             /\ Len(requests) = 1
             /\ requests[1].method = "POST"
       /\ (~StopTransportError /\ ~StopStatusError /\ ~json_loads(ended.stop.text).ok)
          => /\ ended.result.exc \notin {"", "HTTPStatusError"}
             /\ Len(requests) = 1
       /\ (Len(requests) = 2 /\ ended.delete.error = ""
           /\ ~is_success(ended.delete.status_code))
          => ended.result = Raise("HTTPStatusError")
       /\ StopStatusError
          => /\ Len(requests) = 2
             /\ requests[2].method = "DELETE"
             /\ ended.delete.error # "" => ended.result = Raise(ended.delete.error)

\* the stop request timed out: end_session raised ReadTimeout and only the
\* POST .../stop was issued
C28_Witness ==
    /\ ended.stop.error = "ReadTimeout"
    /\ ended.result = Raise("ReadTimeout")
    /\ Len(requests) = 1
    /\ requests[1].url = "http://localhost:4100/api/sessions/s1/stop"

\* ------------------------------------------------------------ send_message_stream

\* the three generators: AshClient.send_message_stream and
\* AshClient.asend_message_stream of ash_client.py, and
\* AshClient.send_message_stream of client.py
Callers ==
    {"ash_client.send_message_stream", "ash_client.asend_message_stream",
     "client.send_message_stream"}

\* the decoder a generator hands its response to
DecoderOf(who) ==
    IF who = "ash_client.asend_message_stream" THEN "async" ELSE "sync"

\* client.py, AshClient.__init__
Client(server_url, api_key) ==
    [server_url |-> rstrip_slash(server_url), _api_key |-> api_key]

\* client.py, AshClient._headers(json)
Client_headers(self, json) ==
    LET h == IF json THEN dict_set(EmptyDict, "Content-Type", "application/json")
             ELSE EmptyDict
    IN  IF truthy(self._api_key)
        THEN dict_set(h, "Authorization", "Bearer " \o self._api_key.s) ELSE h

\* the body of the request: content, and includePartialMessages when asked
\* for (the further options of ash_client.py are left at None)
message_body(content, include_partial_messages) ==
    IF include_partial_messages
    THEN Dict2("content", JStr(content), "includePartialMessages", JBool(TRUE))
    ELSE Dict1("content", JStr(content))

\* the request c.stream("POST", ...) issues
stream_request(url, headers_, body) ==
    [method |-> "POST", url |-> url, headers |-> headers_, json |-> body]

\* an exception of the class named
Exception(name) == [exc |-> name, error |-> None, status_code |-> None]

\* ApiError(error, status_code)
ApiError(error, status_code) ==
    [exc |-> "ApiError", error |-> error, status_code |-> status_code]

\* ApiError.from_dict(data): data.get raises AttributeError on a value that
\* is no dict
ApiError_from_dict(data) ==
    IF ~has_get(data) THEN Exception("AttributeError")
    ELSE ApiError(dict_get(data, "error", JStr("Unknown error")),
                  dict_get(data, "statusCode", JNum(0)))

\* resp.text: the lines of the body, joined
RECURSIVE text_of(_)
text_of(lines) ==
    IF lines = <<>> THEN ""
    ELSE IF Len(lines) = 1 THEN lines[1]
    ELSE lines[1] \o "\n" \o text_of(Tail(lines))

\* response.raise_for_status(): the exception it raises, if any
raise_for_status(reply) ==
    IF is_success(reply.status_code) THEN NoException
    ELSE Exception("HTTPStatusError")

\* the status check of client.py: on a response that is no success the body
\* is read (a broken connection raises there), parsed as JSON or else
\* wrapped with its text and status code, and handed to ApiError.from_dict
raise_unless_success(reply) ==
    IF is_success(reply.status_code) THEN NoException
    ELSE IF reply.breaks THEN Exception("ReadError")
    ELSE LET parsed == json_loads(text_of(reply.lines))
             err == IF parsed.ok THEN parsed.val
                    ELSE Dict2("error", JStr(text_of(reply.lines)),
                               "statusCode", JNum(reply.status_code))
         IN  ApiError_from_dict(err)

\* next() of the decoder d, which stands after line p with the name current:
\* it consumes lines up to the first that yields an event, or raises, or the
\* lines end (with breaks: the connection breaks there, and iter_lines
\* raises ReadError). after_line is what follows the loop body's pass r over
\* line p.
RECURSIVE next_event(_, _, _, _, _)
RECURSIVE after_line(_, _, _, _, _)
next_event(d, lines, p, current, breaks) ==
    IF p >= Len(lines) THEN
        [pos |-> p, current_event |-> current, yielded |-> <<>>,
         end |-> IF breaks THEN "ReadError" ELSE "exhausted"]
    ELSE after_line(d, lines, p + 1, breaks, BodyOf(d, current, lines[p + 1]))

after_line(d, lines, p, breaks, r) ==
    IF r.raised THEN
        [pos |-> p, current_event |-> r.current_event,
         yielded |-> <<>>, end |-> "AttributeError"]
    ELSE IF r.yielded # <<>> THEN
        [pos |-> p, current_event |-> r.current_event,
         yielded |-> r.yielded, end |-> "yield"]
    ELSE next_event(d, lines, p, r.current_event, breaks)

\* leaving the two with blocks without closing the httpx client
with_exit_leaves_client(c) ==
    [c EXCEPT !.phase = "ended", !.stream_open = FALSE]

\* leaving the two with blocks: the response stream is closed, then the
\* httpx client
with_exit(c) ==
    [c EXCEPT !.phase = "ended", !.stream_open = FALSE, !.client_open = FALSE]

\* the exception that ends the first next() before the decoder starts, if
\* any: the transport's, or the one the status check raises
first_failure(first, reply, check) ==
    IF ~first THEN NoException
    ELSE IF reply.error # "" THEN Exception(reply.error)
    ELSE check

\* One next() of a generator of who: on the first, the request and the
\* status check (failure is the exception that ends it there, if any); then
\* the decoder's next(), whose outcome is r; the generator is left suspended
\* at a yield inside the two with blocks, or it ends and the with blocks are
\* left.
stream_next(d, first, request, failure, r) ==
    /\ requests' = IF first THEN Append(requests, request) ELSE requests
    /\ IF failure.exc # "" THEN
           /\ call' = with_exit([call EXCEPT !.left = failure])
           /\ UNCHANGED <<pos, current_event, events, status>>
       ELSE
           /\ pos' = [pos EXCEPT ![d] = r.pos]
           /\ current_event' = [current_event EXCEPT ![d] = r.current_event]
           /\ events' = [events EXCEPT ![d] = @ \o r.yielded]
           /\ status' = [status EXCEPT ![d] =
                             CASE r.end = "yield" -> "running"
                               [] r.end = "exhausted" -> "exhausted"
                               [] OTHER -> "raised"]
           /\ call' = IF r.end = "yield"
                      THEN [call EXCEPT !.phase = "suspended",
                                        !.client_open = TRUE,
                                        !.stream_open = TRUE]
                      ELSE with_exit([call EXCEPT !.left =
                               IF r.end = "exhausted" THEN NoException
                               ELSE Exception(r.end)])
    /\ UNCHANGED <<response, given, client, headers, ended,
                   model_vars, endpoint_vars>>

\* a next() of the generator of who, with the request it issues and the
\* exception its status check raises
stream_pull(who, request, check) ==
    /\ call.who = who
    /\ call.phase \in {"created", "suspended"}
    /\ stream_next(DecoderOf(who), call.phase = "created", request,
                   first_failure(call.phase = "created", call.reply, check),
                   next_event(DecoderOf(who), response[DecoderOf(who)],
                              pos[DecoderOf(who)], current_event[DecoderOf(who)],
                              call.reply.breaks))

\* ash_client.py, AshClient.send_message_stream
send_message_stream ==
    stream_pull("ash_client.send_message_stream",
                stream_request(client.base_url \o "/api/sessions/"
                                   \o call.session_id \o "/messages",
                               _headers(client, DefaultContentType, TRUE),
                               message_body("Hello", call.include_partial_messages)),
                raise_for_status(call.reply))

\* ash_client.py, AshClient.asend_message_stream
asend_message_stream ==
    stream_pull("ash_client.asend_message_stream",
                stream_request(client.base_url \o "/api/sessions/"
                                   \o call.session_id \o "/messages",
                               _headers(client, DefaultContentType, TRUE),
                               message_body("Hello", call.include_partial_messages)),
                raise_for_status(call.reply))

\* client.py, AshClient.send_message_stream
client_send_message_stream ==
    stream_pull("client.send_message_stream",
                stream_request(client.server_url \o "/api/sessions/"
                                   \o call.session_id \o "/messages",
                               Client_headers(client, TRUE),
                               message_body("Hello", call.include_partial_messages)),
                raise_unless_success(call.reply))

\* The consumer closes the generator (close(), aclose()). One that was never
\* started ends without running; one suspended at a yield gets GeneratorExit
\* there and leaves the with blocks. yield from closes the decoder with it;
\* the async decoder is only abandoned.
close ==
    /\ call.phase \in {"created", "suspended"}
    /\ call' = with_exit([call EXCEPT !.closed = TRUE])
    /\ status' = [d \in Decoders |->
                    IF status[d] = "running" /\ d = "sync" THEN "closed"
                    ELSE status[d]]
    /\ UNCHANGED <<response, pos, current_event, events, given,
                   model_vars, client_vars, endpoint_vars>>

\* the bodies of a response: the stream of test_parse_sse_stream_sync, an
\* error frame, two JSON error bodies, JSON that is no object, no body, and
\* a stream with a payload that is no object under a name that reads fields
StreamBodies ==
    { Scenarios[1],
      << "event: error", "data: {\"error\":\"boom\"}", "" >>,
      << "{\"error\":\"Session not found\",\"statusCode\":404}" >>,
      << "{", "  \"message\": \"gone\"", "}" >>,
      << "null" >>,
      << >>,
      Scenarios[6] }

\* the status codes of a response
StreamStatusCodes == {200, 204, 302, 404, 500}

\* what the server (or the transport) makes of the request: no response, or
\* a response whose body is complete or breaks off after its lines
StreamReplies ==
    {[error |-> e, status_code |-> 0, lines |-> <<>>, breaks |-> FALSE] :
        e \in {"ConnectError", "ReadTimeout"}}
        \cup {[error |-> "", status_code |-> c, lines |-> b, breaks |-> k] :
                c \in StreamStatusCodes, b \in StreamBodies, k \in BOOLEAN}

InitStream ==
    \E who \in Callers, base_url \in BaseUrls, t \in {1, 3},
       session_id \in SessionIds, partial \in BOOLEAN, reply \in StreamReplies :
        /\ client = IF who = "client.send_message_stream"
                    THEN Client(base_url, Tokens[t])
                    ELSE AshClient(base_url, Tokens[t])
        /\ headers = [content_type |-> None, streaming |-> FALSE, result |-> NotCalled]
        /\ requests = <<>>
        /\ ended = [result |-> NotCalled, session_id |-> "",
                    stop |-> Reply("", 0, ""), delete |-> Reply("", 0, "")]
        /\ response = [d \in Decoders |->
                          IF d = DecoderOf(who) THEN reply.lines ELSE <<>>]
        /\ pos = [d \in Decoders |-> 0]
        /\ current_event = [d \in Decoders |-> ""]
        /\ events = [d \in Decoders |-> <<>>]
        /\ status = [d \in Decoders |-> "idle"]
        /\ given = [kind |-> "call", name |-> "", payload |-> 0, sp |-> ""]
        /\ call = [who |-> who, session_id |-> session_id,
                   include_partial_messages |-> partial, reply |-> reply,
                   phase |-> "created", client_open |-> FALSE,
                   stream_open |-> FALSE, left |-> NoException, closed |-> FALSE]
        /\ NoModels /\ NoEndpoint

NextStream ==
    send_message_stream \/ asend_message_stream \/ client_send_message_stream \/ close

SpecStream == InitStream /\ [][NextStream]_vars

\* ------------------------------------------------------------ the stream's claims

\* the decoder of the call
CallDecoder == DecoderOf(call.who)

\* the server answered the request with a status that is no success, and
\* the body of its response arrived whole
NonSuccess ==
    /\ call.reply.error = "" /\ ~call.reply.breaks
    /\ call.reply.status_code \notin 200..299

\* the generator has been pulled: it issued its request
Pulled == Len(requests) >= 1

\* C27: send_message_stream checks the HTTP status before decoding: when the
\* server answers the POST /api/sessions/{id}/messages request with a
\* non-success status, the generator raises (httpx.HTTPStatusError in
\* ash_client.AshClient, ApiError in client.AshClient) on the first pull and
\* yields no event at all, whatever lines the error body holds.
C27_StatusCheckedFirst ==
    (call.phase # "none" /\ NonSuccess)
    => /\ events[CallDecoder] = <<>>
       /\ pos[CallDecoder] = 0
       /\ call.phase # "suspended"
       /\ Pulled
          => /\ requests[1].method = "POST"
             /\ requests[1].url = "http://localhost:4100/api/sessions/"
                                     \o call.session_id \o "/messages"
             /\ call.phase = "ended"
             /\ call.left.exc = IF call.who = "client.send_message_stream"
                                THEN "ApiError" ELSE "HTTPStatusError"

\* C29: in AshClient.send_message_stream the HTTP stream outlives every
\* event: a step that yields an event leaves the generator suspended with
\* the response stream and its client open, both are closed once the
\* generator has ended (the input is exhausted, decoding or the status check
\* or the transport raises, or the consumer closes the generator), and an
\* ended generator yields no event.
C29_StreamOutlivesEvents ==
    /\ [](call.phase = "ended" => ~call.stream_open /\ ~call.client_open)
    /\ [](call.phase = "suspended" => call.stream_open /\ call.client_open)
    /\ [][/\ events'[CallDecoder] # events[CallDecoder]
             => /\ call'.phase = "suspended"
                /\ call'.stream_open /\ call'.client_open
          /\ (call.phase = "ended" \/ ~call'.stream_open) => events' = events]_vars

\* the consumer has closed the asynchronous generator of ash_client.py after
\* its second event, with lines left unread: stream and client are closed
C29_Witness ==
    /\ call.who = "ash_client.asend_message_stream"
    /\ call.closed /\ call.phase = "ended"
    /\ ~call.stream_open /\ ~call.client_open
    /\ Len(events["async"]) = 2
    /\ events["async"][1] = SessionStartEvent(JStr("s1"), JStr("0.0.16"))
    /\ pos["async"] < Len(response["async"])

\* ------------------------------------------------------------ the generated endpoints

\* the members of http.HTTPStatus
HTTPStatusCodes ==
    {100, 101, 102, 103, 200, 201, 202, 203, 204, 205, 206, 207, 208, 226,
     300, 301, 302, 303, 304, 305, 307, 308,
     400, 401, 402, 403, 404, 405, 406, 407, 408, 409, 410, 411, 412, 413, 414,
     415, 416, 417, 418, 421, 422, 423, 424, 425, 426, 428, 429, 431, 451,
     500, 501, 502, 503, 504, 505, 506, 507, 508, 510, 511}

\* HTTPStatus(code): the member, or ValueError for a code that is none
HTTPStatus(code) ==
    IF code \in HTTPStatusCodes THEN Ok(code) ELSE Raise("ValueError")

\* Model.from_dict(response.json()) of a response model: the body must be
\* JSON and a mapping, and DeleteApiAgentsNameResponse200 pops 'ok'
response_model(cls, content) ==
    LET data == json_loads(content)
        d == dict_of(data.val)
    IN  IF ~data.ok THEN Raise("JSONDecodeError")
        ELSE IF d.exc # "" THEN Raise(d.exc)
        ELSE IF cls = "DeleteApiAgentsNameResponse200" /\ "ok" \notin DOMAIN d.val
             THEN Raise("KeyError")
        ELSE Ok([cls |-> cls, d |-> d.val])

\* the end of every _parse_response: an undocumented status code
unexpected_status(client_) ==
    IF client_.raise_on_unexpected_status THEN Raise("UnexpectedStatus") ELSE Ok(None)

\* _parse_response of api/sessions/post_api_sessions.py
post_api_sessions_parse_response(client_, response_) ==
    IF response_.status_code = 201
    THEN response_model("PostApiSessionsResponse201", response_.content)
    ELSE IF response_.status_code \in {400, 404, 500, 503}
    THEN response_model("ApiError", response_.content)
    ELSE unexpected_status(client_)

\* _parse_response of api/queue/get_api_queue.py
get_api_queue_parse_response(client_, response_) ==
    IF response_.status_code = 200
    THEN response_model("GetApiQueueResponse200", response_.content)
    ELSE unexpected_status(client_)

\* _parse_response of api/agents/delete_api_agents_name.py
delete_api_agents_name_parse_response(client_, response_) ==
    IF response_.status_code = 200
    THEN response_model("DeleteApiAgentsNameResponse200", response_.content)
    ELSE IF response_.status_code = 404
    THEN response_model("ApiError", response_.content)
    ELSE unexpected_status(client_)

\* _build_response: the arguments of Response(...) in their order, so
\* HTTPStatus(response.status_code) before _parse_response
_build_response(client_, response_) ==
    LET status_code == HTTPStatus(response_.status_code)
        parsed == CASE client_.name = "post_api_sessions" ->
                          post_api_sessions_parse_response(client_, response_)
                    [] client_.name = "get_api_queue" ->
                          get_api_queue_parse_response(client_, response_)
                    [] client_.name = "delete_api_agents_name" ->
                          delete_api_agents_name_parse_response(client_, response_)
    IN  IF status_code.exc # "" THEN Raise(status_code.exc)
        ELSE IF parsed.exc # "" THEN Raise(parsed.exc)
        ELSE Ok([status_code |-> status_code.val,
                 content |-> response_.content,
                 headers |-> response_.headers,
                 parsed |-> parsed.val])

EndpointNames == {"post_api_sessions", "get_api_queue", "delete_api_agents_name"}

\* status codes the server, or a proxy before it, answers with
EndpointStatusCodes == {200, 201, 204, 299, 400, 401, 404, 418, 500, 503, 520}

\* response bodies: the three success bodies, an error body, a proxy's page
EndpointBodies ==
    {"{\"ok\":true}", "{\"session\":{\"id\":\"s1\"}}", "{\"items\":[]}",
     "{\"error\":\"not found\",\"statusCode\":404}", "<html>Bad gateway</html>"}

EndpointHeaders ==
    {EmptyDict, [k \in {"content-type"} |-> "application/json"]}

InitEndpoint ==
    /\ \E name \in EndpointNames, flag \in BOOLEAN :
           endpoint = [name |-> name, raise_on_unexpected_status |-> flag]
    /\ \E code \in EndpointStatusCodes, content \in EndpointBodies,
          h \in EndpointHeaders :
           http_response = [status_code |-> code, content |-> content, headers |-> h]
    /\ detailed = NotCalled
    /\ NoStreams /\ NoModels /\ NoClient /\ NoCall

\* sync_detailed: the request, then _build_response on its response
sync_detailed ==
    /\ detailed.exc = "none"
    /\ detailed' = _build_response(endpoint, http_response)
    /\ UNCHANGED <<endpoint, http_response, sse_vars, model_vars, client_vars,
                   stream_vars>>

NextEndpoint == sync_detailed

SpecEndpoint == InitEndpoint /\ [][NextEndpoint]_vars

\* ------------------------------------------------------------ the endpoints' claims

\* the status codes each endpoint documents, and the model of each
ModelOf(name, code) ==
    CASE name = "post_api_sessions" /\ code = 201 -> "PostApiSessionsResponse201"
      [] name = "post_api_sessions" /\ code \in {400, 404, 500, 503} -> "ApiError"
      [] name = "get_api_queue" /\ code = 200 -> "GetApiQueueResponse200"
      [] name = "delete_api_agents_name" /\ code = 200 -> "DeleteApiAgentsNameResponse200"
      [] name = "delete_api_agents_name" /\ code = 404 -> "ApiError"
      [] OTHER -> ""

\* the body is the JSON object the documented model is read from
BodyFits ==
    /\ json_loads(http_response.content).ok
    /\ ModelOf(endpoint.name, http_response.status_code) = "DeleteApiAgentsNameResponse200"
       => http_response.content = "{\"ok\":true}"

\* C18: every generated endpoint handles status codes the same way: a
\* documented status code is parsed into its model (success model or
\* ApiError); an undocumented status code raises errors.UnexpectedStatus if
\* and only if client.raise_on_unexpected_status is true, and otherwise the
\* parsed result is None while the detailed Response still carries the
\* status code, content and headers.
C18_StatusHandling ==
    detailed.exc # "none"
    => LET model == ModelOf(endpoint.name, http_response.status_code)
       IN  /\ (model # "" /\ BodyFits)
              => (detailed.exc = "" /\ detailed.val.parsed.cls = model)
           /\ model = ""
              => /\ detailed.exc = "UnexpectedStatus"
                    <=> endpoint.raise_on_unexpected_status
                 /\ ~endpoint.raise_on_unexpected_status
                    => /\ detailed.exc = ""
                       /\ detailed.val.parsed = None
                       /\ detailed.val.status_code = http_response.status_code
                       /\ detailed.val.content = http_response.content
                       /\ detailed.val.headers = http_response.headers

====
